---- MODULE Spec2Model ----
(***************************************************************************)
(* Transcript generator: the job orchestration core of server.js and the   *)
(* job state store of jobManager.js, as a state machine.                   *)
(*                                                                         *)
(* One step of the model is one turn of the Node.js event loop: an HTTP    *)
(* request handler, a timer callback or the settling of a network call.    *)
(* The promise continuations that such a turn makes ready (the pool        *)
(* starting a queued item, the handler resuming after Promise.all) run     *)
(* before any other timer, request or response is served: MicroPending     *)
(* guards every event-loop turn.                                           *)
(***************************************************************************)
EXTENDS Integers, Sequences, FiniteSets, TLC

(* ------------------------------------------------------------------ *)
(* Configuration (server.js 16-19) and bounds of the model             *)
(* ------------------------------------------------------------------ *)

\* TRANSCRIPT_CONCURRENCY: the width of the pool (the model runs the override 2)
DEFAULT_CONCURRENCY == 2
\* TRANSCRIPT_MAX_RETRIES
MAX_RETRIES == 2
\* TRANSCRIPT_RETRY_DELAY_MS
RETRY_DELAY_MS == 1000
\* TRANSCRIPT_RATE_LIMIT_DELAY_MS
RATE_LIMIT_DELAY_MS == 500
\* the literal of setTimeout(resolve, 500) in checkJobState
PAUSE_POLL_MS == 500
\* the literal of the session directory's delayed removal, setTimeout(..., 1000)
SESSION_CLEANUP_MS == 1000
\* the episodes of one series (comboGenerator: episode = 1..4)
EPISODES_PER_SERIES == 4
\* one series per this many requested transcripts (comboGenerator)
SERIES_EVERY == 10

\* the clock advances in steps of TickMs, at most MaxTicks times
TickMs == RATE_LIMIT_DELAY_MS
MaxTicks == 7
\* the upstream calls of the first MaxUnreliable items may fail, the others succeed
MaxUnreliable == 1
\* the transcriptCount of the generate request: singles only (Spec), and the
\* smallest count whose plan has a series (SpecSeries)
TranscriptCount == 3
SeriesCount == SERIES_EVERY
\* the stand-alone planner runs (SpecPlan) are asked for 1..MaxPlanCount transcripts
MaxPlanCount == 20
PlanCounts == 1..MaxPlanCount
\* answers of up to this many entries are drawn with every tag and with one entry
\* too few or too many; longer ones are drawn well-tagged and of the right length
PlanFullTagLen == 5

\* the stand-alone runs of the store (SpecStore): the clock makes at most
\* MaxStoreTicks steps, a job is created for 1..MaxStoreCount transcripts and its
\* log grows to at most MaxStoreCount records
MaxStoreTicks == 2
MaxStoreCount == 2
StoreCounts == 1..MaxStoreCount

\* the stand-alone runs of splitSeriesContent (SpecSplit) are given texts of
\* 1..MaxLines lines, each of them an episode marker or not
MaxLines == 6

JobIds == {"job1"}
\* the identifiers the store's callers name: the second one is never created
StoreIds == {"job1", "job2"}
\* what a failed upstream call throws; the items' calls of Spec throw the second
UpstreamErrors == {"status429", "status500"}
ItemErrors == {"status500"}
\* what a successful upstream call of SpecRetry returns
Values == {"textA", "textB"}

VARIABLES
    now,        \* Date.now()
    jobs,       \* jobManager.jobs: Map jobId -> job
    disk,       \* jobs/<jobId>.json: the persisted state of each job
    resp,       \* the last response of /pause, /resume, /cancel
    h,          \* the /generate handler: its position and its locals
    items,      \* the work items (series first, then singles) and their position
    lastCall,   \* rateLimitQueue.lastCall
    stream,     \* the event stream res: the events written and whether it is ended
    session,    \* the session directory and the files in it
    cancelMark, \* history: what was true of the items when cancelJob last ran
    rt,         \* a stand-alone run of retryWithBackoff (specification SpecRetry)
    pl,         \* a stand-alone run of generateCombos (specification SpecPlan)
    sp          \* a stand-alone run of splitSeriesContent (specification SpecSplit)

vars == <<now, jobs, disk, resp, h, items, lastCall, stream, session, cancelMark, rt, pl, sp>>

(* ------------------------------------------------------------------ *)
(* Job State Store (jobManager.js)                                     *)
(* ------------------------------------------------------------------ *)

Null == -1

HasJob(js, jobId) == jobId \in DOMAIN js

\* Map.set
MapSet(m, k, v) == [x \in (DOMAIN m) \cup {k} |-> IF x = k THEN v ELSE m[x]]

\* the fields saveJobState writes
Persisted(job) ==
    [id |-> job.id, state |-> job.state, startTime |-> job.startTime,
     transcriptCount |-> job.transcriptCount,
     inProgressIndex |-> job.inProgressIndex,
     completedTranscripts |-> job.completedTranscripts,
     pausedAt |-> job.pausedAt, cancelledAt |-> job.cancelledAt,
     completedAt |-> job.completedAt]

saveJobState_OnceOnly(dk, js, jobId) ==
    IF ~HasJob(js, jobId) \/ HasJob(dk, jobId) THEN dk
    ELSE MapSet(dk, jobId, Persisted(js[jobId]))

saveJobState(dk, js, jobId) ==
    IF ~HasJob(js, jobId) THEN dk ELSE MapSet(dk, jobId, Persisted(js[jobId]))

\* loadJobState: the parsed content of the job's file, null when there is none.
\* The file holds finite integers, strings, null and arrays of objects of these,
\* which JSON.parse gives back as JSON.stringify received them.
loadJobState(dk, jobId) == IF ~HasJob(dk, jobId) THEN Null ELSE dk[jobId]

\* a store operation's outcome: the error thrown ("none" when it returns), the
\* map and the disk after it
Thrown(err, js, dk) == [error |-> err, jobs |-> js, disk |-> dk]
Returned(js, dk, jobId) ==
    [error |-> "none", jobs |-> js, disk |-> saveJobState(dk, js, jobId)]

createJob(js, dk, jobId, transcriptCount, t) ==
    LET job == [id |-> jobId, state |-> "running", startTime |-> t,
                transcriptCount |-> transcriptCount,
                completedTranscripts |-> <<>>, inProgressIndex |-> 0,
                pausedAt |-> Null, cancelledAt |-> Null, completedAt |-> Null,
                aborted |-> FALSE]
    IN  Returned(MapSet(js, jobId, job), dk, jobId)

updateProgress(js, dk, jobId, transcriptIndex, fileName) ==
    IF ~HasJob(js, jobId) THEN Thrown("not found", js, dk)
    ELSE LET job == js[jobId]
             upd == [job EXCEPT
                        !.inProgressIndex = transcriptIndex,
                        !.completedTranscripts =
                            Append(@, [index |-> transcriptIndex, fileName |-> fileName])]
         IN  Returned(MapSet(js, jobId, upd), dk, jobId)

pauseJob_NoGuard(js, dk, jobId, t) ==
    IF ~HasJob(js, jobId) THEN Thrown("not found", js, dk)
    ELSE Returned(MapSet(js, jobId, [js[jobId] EXCEPT !.state = "paused", !.pausedAt = t]),
                  dk, jobId)

pauseJob_StampFirst(js, dk, jobId, t) ==
    IF ~HasJob(js, jobId) THEN Thrown("not found", js, dk)
    ELSE IF js[jobId].state # "running"
    THEN Thrown("cannot pause", MapSet(js, jobId, [js[jobId] EXCEPT !.pausedAt = t]), dk)
    ELSE Returned(MapSet(js, jobId, [js[jobId] EXCEPT !.state = "paused", !.pausedAt = t]),
                  dk, jobId)

pauseJob_CreatesMissing(js, dk, jobId, t) ==
    IF ~HasJob(js, jobId) THEN createJob(js, dk, jobId, 1, t)
    ELSE IF js[jobId].state # "running" THEN Thrown("cannot pause", js, dk)
    ELSE Returned(MapSet(js, jobId, [js[jobId] EXCEPT !.state = "paused", !.pausedAt = t]),
                  dk, jobId)

pauseJob(js, dk, jobId, t) ==
    IF ~HasJob(js, jobId) THEN Thrown("not found", js, dk)
    ELSE IF js[jobId].state # "running" THEN Thrown("cannot pause", js, dk)
    ELSE Returned(MapSet(js, jobId, [js[jobId] EXCEPT !.state = "paused", !.pausedAt = t]),
                  dk, jobId)

resumeJob_NoGuard(js, dk, jobId) ==
    IF ~HasJob(js, jobId) THEN Thrown("not found", js, dk)
    ELSE Returned(MapSet(js, jobId, [js[jobId] EXCEPT !.state = "running", !.pausedAt = Null,
                                                      !.aborted = FALSE]),
                  dk, jobId)

resumeJob_Restart(js, dk, jobId) ==
    IF ~HasJob(js, jobId) THEN Thrown("not found", js, dk)
    ELSE IF js[jobId].state # "paused" THEN Thrown("cannot resume", js, dk)
    ELSE Returned(MapSet(js, jobId, [js[jobId] EXCEPT !.state = "running", !.pausedAt = Null,
                                                      !.aborted = FALSE,
                                                      !.inProgressIndex = 0,
                                                      !.completedTranscripts = <<>>]),
                  dk, jobId)

resumeJob(js, dk, jobId) ==
    IF ~HasJob(js, jobId) THEN Thrown("not found", js, dk)
    ELSE IF js[jobId].state # "paused" THEN Thrown("cannot resume", js, dk)
    ELSE Returned(MapSet(js, jobId, [js[jobId] EXCEPT !.state = "running", !.pausedAt = Null,
                                                      !.aborted = FALSE]),
                  dk, jobId)

cancelJob_KeepsSignal(js, dk, jobId, t) ==
    IF ~HasJob(js, jobId) THEN Thrown("not found", js, dk)
    ELSE Returned(MapSet(js, jobId, [js[jobId] EXCEPT !.state = "cancelled", !.cancelledAt = t]),
                  dk, jobId)

cancelJob(js, dk, jobId, t) ==
    IF ~HasJob(js, jobId) THEN Thrown("not found", js, dk)
    ELSE Returned(MapSet(js, jobId, [js[jobId] EXCEPT !.state = "cancelled", !.cancelledAt = t,
                                                      !.aborted = TRUE]),
                  dk, jobId)

completeJob(js, dk, jobId, t) ==
    IF ~HasJob(js, jobId) THEN Thrown("not found", js, dk)
    ELSE Returned(MapSet(js, jobId, [js[jobId] EXCEPT !.state = "completed", !.completedAt = t]),
                  dk, jobId)

JobState(js, jobId) == IF HasJob(js, jobId) THEN js[jobId].state ELSE "none"

\* Map.delete, fs.unlinkSync
MapDelete(m, k) == [x \in (DOMAIN m) \ {k} |-> m[x]]

cleanupJob_MemoryOnly(js, dk, jobId) == [error |-> "none", jobs |-> MapDelete(js, jobId), disk |-> dk]

cleanupJob(js, dk, jobId) ==
    [error |-> "none", jobs |-> MapDelete(js, jobId), disk |-> MapDelete(dk, jobId)]

\* a JavaScript number: an integer, or what a division by zero gives
Finite(n) == [kind |-> "finite", v |-> n]
Infinity == [kind |-> "Infinity", v |-> 0]
NaN == [kind |-> "NaN", v |-> 0]

\* Math.round(n / d) for n >= 0 and d > 0: halves go up
RoundDiv(n, d) == (2 * n + d) \div (2 * d)

\* Math.round((elapsedTime / completedCount) * pendingCount): x / 0 is Infinity
\* for x > 0 and NaN for x = 0, and Math.round keeps both
RoundedEstimate(elapsedTime, completedCount, pendingCount) ==
    IF completedCount = 0 THEN (IF elapsedTime = 0 THEN NaN ELSE Infinity)
    ELSE Finite(RoundDiv(elapsedTime * pendingCount, completedCount))

NoStats == [id |-> "none"]

\* getJobStats: null for an unknown job
getJobStats(js, jobId, t) ==
    IF ~HasJob(js, jobId) THEN NoStats
    ELSE LET job == js[jobId]
             completedCount == Len(job.completedTranscripts)
             pendingCount == job.transcriptCount - completedCount
             elapsedTime == t - job.startTime
         IN  [id |-> jobId,
              state |-> job.state,
              completedCount |-> completedCount,
              totalCount |-> job.transcriptCount,
              pendingCount |-> pendingCount,
              percentComplete |-> RoundDiv(completedCount * 100, job.transcriptCount),
              elapsedTime |-> elapsedTime,
              estimatedTimeRemaining |->
                  IF pendingCount > 0
                  THEN RoundedEstimate(elapsedTime, completedCount, pendingCount)
                  ELSE Finite(0),
              startTime |-> job.startTime,
              pausedAt |-> job.pausedAt,
              cancelledAt |-> job.cancelledAt,
              completedAt |-> job.completedAt]


(* ------------------------------------------------------------------ *)
(* retryWithBackoff (server.js 56-78)                                  *)
(* ------------------------------------------------------------------ *)

RECURSIVE Pow2(_)
Pow2(n) == IF n = 0 THEN 1 ELSE 2 * Pow2(n - 1)

\* the loop's state: pc is "calling" (awaiting fn()), "backoff" (awaiting the
\* setTimeout), "returned" or "thrown"
RetryBegin ==
    [pc |-> "calling", attempt |-> 0, lastError |-> "undefined", wakeAt |-> Null,
     value |-> "none"]

\* await fn() returned v
retryOnSuccess(r, v) == [r EXCEPT !.pc = "returned", !.value = v]

retryOnFailure_NoLimit(r, e, maxRetries, t) ==
    [r EXCEPT !.lastError = e, !.pc = "backoff",
              !.wakeAt = t + RETRY_DELAY_MS * Pow2(r.attempt)]

retryOnFailure_FlatDelay(r, e, maxRetries, t) ==
    IF r.attempt < maxRetries
    THEN [r EXCEPT !.lastError = e, !.pc = "backoff", !.wakeAt = t + RETRY_DELAY_MS]
    ELSE [r EXCEPT !.lastError = e, !.pc = "thrown"]

\* await fn() threw e at time t
retryOnFailure(r, e, maxRetries, t) ==
    IF r.attempt < maxRetries
    THEN [r EXCEPT !.lastError = e, !.pc = "backoff",
                   !.wakeAt = t + RETRY_DELAY_MS * Pow2(r.attempt)]
    ELSE [r EXCEPT !.lastError = e, !.pc = "thrown"]

\* the backoff timer fired: attempt++ and the next fn()
retryAfterBackoff(r) == [r EXCEPT !.attempt = @ + 1, !.pc = "calling", !.wakeAt = Null]

\* error.status === 429 || message includes 'rate limit' || message includes '429'
IsRateLimitError(e) == e = "status429"

(* ------------------------------------------------------------------ *)
(* The plan's work items (comboGenerator.js 12-15, server.js 194-208)  *)
(* ------------------------------------------------------------------ *)

numberOfSeries(n) == n \div SERIES_EVERY
remainingTranscripts(n) == n - numberOfSeries(n) * EPISODES_PER_SERIES
NumItems(n) == numberOfSeries(n) + remainingTranscripts(n)

\* seriesMap's entries come first (items 1..numberOfSeries), then singleTranscripts
ItemKind(n, i) == IF i <= numberOfSeries(n) THEN "series" ELSE "single"
Artifacts_ExtraEpisode(kind) == IF kind = "series" THEN EPISODES_PER_SERIES + 1 ELSE 1
\* the files an item writes: one per episode of its series, or one
Artifacts(kind) == IF kind = "series" THEN EPISODES_PER_SERIES ELSE 1

Items == DOMAIN items
SeriesItems == {i \in Items : items[i].kind = "series"}
SingleItems == {i \in Items : items[i].kind = "single"}

\* started by the pool and not yet settled
ActivePcs == {"pausewait", "ratewait", "retry"}
SettledPcs == {"ok", "failed", "rejected"}
Active == {i \in Items : items[i].pc \in ActivePcs}
Queued == {i \in Items : items[i].pc = "queued"}
\* past checkJobState, not yet settled
InFlight == {i \in Items : items[i].pc \in {"ratewait", "retry"}}
NotPastCheck == {i \in Items : items[i].pc \in {"grouped", "queued", "pausewait"}}

RECURSIVE SumArtifacts(_)
SumArtifacts(S) ==
    IF S = {} THEN 0
    ELSE LET i == CHOOSE x \in S : TRUE
         IN  Artifacts(items[i].kind) + SumArtifacts(S \ {i})

(* ------------------------------------------------------------------ *)
(* generateCombos (comboGenerator.js): validation and expansion        *)
(* ------------------------------------------------------------------ *)

\* An entry of the collaborator's answer, by what the two tests of the code make
\* of its type / seriesIndicator fields: "seriesAndSingle" passes both tests
\* (type 'series' with seriesIndicator 'single', or the reverse), "other" neither
Tags == {"series", "single", "seriesAndSingle", "other"}
\* c.type === 'series' || c.seriesIndicator === 'series'
IsSeriesTag(c) == c \in {"series", "seriesAndSingle"}
\* c.type === 'single' || c.seriesIndicator === 'single'
IsSingleTag(c) == c \in {"single", "seriesAndSingle"}

PlanError(msg) == [ok |-> FALSE, error |-> msg, combos |-> <<>>]

SeriesEpisodes_FromZero(seriesComboIndex) ==
    [e \in 1..EPISODES_PER_SERIES |->
        [isSeriesEpisode |-> TRUE, seriesId |-> seriesComboIndex, episodeNumber |-> e - 1,
         totalEpisodes |-> EPISODES_PER_SERIES]]

\* for (let episode = 1; episode <= 4; episode++) processedCombos.push(...)
SeriesEpisodes(seriesComboIndex) ==
    [e \in 1..EPISODES_PER_SERIES |->
        [isSeriesEpisode |-> TRUE, seriesId |-> seriesComboIndex, episodeNumber |-> e,
         totalEpisodes |-> EPISODES_PER_SERIES]]

SingleCombo ==
    [isSeriesEpisode |-> FALSE, seriesId |-> Null, episodeNumber |-> Null,
     totalEpisodes |-> Null]

RECURSIVE expandCombos_SameId(_, _, _, _)
expandCombos_SameId(combos, i, seriesComboIndex, processedCombos) ==
    IF i > Len(combos) THEN [ok |-> TRUE, error |-> "none", combos |-> processedCombos]
    ELSE IF IsSeriesTag(combos[i])
    THEN expandCombos_SameId(combos, i + 1, seriesComboIndex,
                             processedCombos \o SeriesEpisodes(seriesComboIndex))
    ELSE IF IsSingleTag(combos[i])
    THEN expandCombos_SameId(combos, i + 1, seriesComboIndex,
                             Append(processedCombos, SingleCombo))
    ELSE PlanError("unknown type")

\* the transformation loop, from entry i on
RECURSIVE expandCombos(_, _, _, _)
expandCombos(combos, i, seriesComboIndex, processedCombos) ==
    IF i > Len(combos) THEN [ok |-> TRUE, error |-> "none", combos |-> processedCombos]
    ELSE IF IsSeriesTag(combos[i])
    THEN expandCombos(combos, i + 1, seriesComboIndex + 1,
                      processedCombos \o SeriesEpisodes(seriesComboIndex))
    ELSE IF IsSingleTag(combos[i])
    THEN expandCombos(combos, i + 1, seriesComboIndex, Append(processedCombos, SingleCombo))
    ELSE PlanError("unknown type")

seriesCountOf(combos) == Cardinality({i \in DOMAIN combos : IsSeriesTag(combos[i])})

singleCountOf(combos) == Cardinality({i \in DOMAIN combos : IsSingleTag(combos[i])})

generateCombos_LengthOnly(transcriptCount, combos) ==
    IF Len(combos) # NumItems(transcriptCount) THEN PlanError("combos length")
    ELSE expandCombos(combos, 1, 0, <<>>)

\* generateCombos from the parsed answer `combos` on
generateCombos(transcriptCount, combos) ==
    LET totalUniqueCombos == NumItems(transcriptCount)
        seriesCount == seriesCountOf(combos)
        singleCount == singleCountOf(combos)
    IN  IF Len(combos) # totalUniqueCombos THEN PlanError("combos length")
        ELSE IF seriesCount # numberOfSeries(transcriptCount) THEN PlanError("series count")
        ELSE IF singleCount # remainingTranscripts(transcriptCount)
        THEN PlanError("single count")
        ELSE expandCombos(combos, 1, 0, <<>>)

SeqsOf(S, lo, hi) == UNION {[1..k -> S] : k \in lo..hi}

\* the answers the collaborator may give to a request for n transcripts
PlanAnswers(n) ==
    IF NumItems(n) <= PlanFullTagLen
    THEN SeqsOf(Tags, NumItems(n) - 1, NumItems(n) + 1)
    ELSE SeqsOf({"series", "single"}, NumItems(n), NumItems(n))

PlanIdle == [pc |-> "idle", n |-> 0, answer |-> <<>>, result |-> PlanError("none")]

(* ------------------------------------------------------------------ *)
(* splitSeriesContent (server.js 674-711)                              *)
(* ------------------------------------------------------------------ *)

\* content.split('\n') of a text: line k is [no |-> k, marker |-> m], where m
\* says whether the line passes the test of server.js 682
LinesOf(markers) == [k \in DOMAIN markers |-> [no |-> k, marker |-> markers[k]]]
Contents == {LinesOf(ms) : ms \in SeqsOf(BOOLEAN, 1, MaxLines)}

\* the loop of server.js 681-690 from line k on, then the push of 693-695
RECURSIVE markerLoop(_, _, _, _, _)
markerLoop(lines, k, currentEpisode, episodeCount, episodeTexts) ==
    IF k > Len(lines)
    THEN IF currentEpisode # <<>> THEN Append(episodeTexts, currentEpisode) ELSE episodeTexts
    ELSE IF lines[k].marker
    THEN IF currentEpisode # <<>> /\ episodeCount > 0
         THEN markerLoop(lines, k + 1, <<lines[k]>>, episodeCount + 1,
                         Append(episodeTexts, currentEpisode))
         ELSE markerLoop(lines, k + 1, Append(currentEpisode, lines[k]), episodeCount + 1,
                         episodeTexts)
    ELSE markerLoop(lines, k + 1, Append(currentEpisode, lines[k]), episodeCount, episodeTexts)

markerSplit(lines) == markerLoop(lines, 1, <<>>, 0, <<>>)

\* the fallback of server.js 699-706: lines.slice(start, end) for each episode
evenSplit(lines, n) ==
    LET linesPerEpisode == Len(lines) \div n
    IN  [i \in 1..n |->
            SubSeq(lines, (i - 1) * linesPerEpisode + 1,
                   IF i = n THEN Len(lines) ELSE i * linesPerEpisode)]

splitSeriesContent_MarkersOnly(lines, n) ==
    LET episodeTexts == markerSplit(lines)
    IN  SubSeq(episodeTexts, 1, IF Len(episodeTexts) < n THEN Len(episodeTexts) ELSE n)

\* an episode text is the sequence of its lines (join('\n'))
splitSeriesContent(lines, n) ==
    LET episodeTexts == markerSplit(lines)
    IN  IF Len(episodeTexts) < n THEN evenSplit(lines, n) ELSE SubSeq(episodeTexts, 1, n)

\* sp: the text given to a stand-alone run, the segments returned, and the
\* episode numbers of the artifacts the loop of server.js 294-326 then saves
SplitIdle == [pc |-> "idle", lines |-> <<>>, episodes |-> <<>>, saved |-> <<>>]

(* ------------------------------------------------------------------ *)
(* The pool: limit = pLimit(DEFAULT_CONCURRENCY) (server.js 217)       *)
(* ------------------------------------------------------------------ *)

PoolHasSlot_Unbounded(active) == TRUE

\* p-limit runs a queued function only while fewer than `concurrency` are running
PoolHasSlot(active) == Cardinality(active) < DEFAULT_CONCURRENCY

\* p-limit's queue is first in, first out; items are enqueued in index order
CanStart(i) ==
    /\ i \in Queued
    /\ \A j \in Queued : i <= j
    /\ PoolHasSlot(Active)

(* ------------------------------------------------------------------ *)
(* checkJobState (server.js 81-96) and applyRateLimit (221-227)        *)
(* ------------------------------------------------------------------ *)

checkJobState_WaitsOnCancel(js, jobId) ==
    IF ~HasJob(js, jobId) THEN "cancelled"
    ELSE IF js[jobId].state \in {"paused", "cancelled"} THEN "wait"
    ELSE "running"

checkJobState_IgnoresCancel(js, jobId) ==
    IF HasJob(js, jobId) /\ js[jobId].state = "paused" THEN "wait" ELSE "running"

checkJobState_IgnoresPause(js, jobId) ==
    IF ~HasJob(js, jobId) \/ js[jobId].state = "cancelled" THEN "cancelled" ELSE "running"

\* one evaluation of the function's tests, at entry or after a poll: "cancelled"
\* and "running" are its return values, "wait" is one more turn of the while loop
checkJobState(js, jobId) ==
    IF ~HasJob(js, jobId) \/ js[jobId].state = "cancelled" THEN "cancelled"
    ELSE IF js[jobId].state = "paused" THEN "wait"
    ELSE "running"

\* applyRateLimit up to its await: the delay to sleep, 0 when it does not sleep
rateLimitWait(t, last) ==
    IF t - last < RATE_LIMIT_DELAY_MS THEN RATE_LIMIT_DELAY_MS - (t - last) ELSE 0

\* the item's first upstream call: rateLimitQueue.lastCall = Date.now(), then
\* retryWithBackoff's first fn()
IssueFirstCall(it) == [it EXCEPT !.pc = "retry", !.r = RetryBegin, !.wakeAt = Null, !.calls = 1]

\* generateSeries / generateSingle from checkJobState to the first suspension
\* (server.js 231-234, 264-266; 337-340, 352-354)
EnterItem(i) ==
    LET st == checkJobState(jobs, h.jobId)
        wait == rateLimitWait(now, lastCall)
    IN  CASE st = "cancelled" ->
                /\ items' = [items EXCEPT ![i].pc = "rejected", ![i].wakeAt = Null]
                /\ UNCHANGED lastCall
          [] st = "wait" ->
                /\ items' = [items EXCEPT ![i].pc = "pausewait",
                                          ![i].wakeAt = now + PAUSE_POLL_MS]
                /\ UNCHANGED lastCall
          [] OTHER ->
                IF wait > 0
                THEN /\ items' = [items EXCEPT ![i].pc = "ratewait", ![i].wakeAt = now + wait]
                     /\ UNCHANGED lastCall
                ELSE /\ items' = [items EXCEPT ![i] = IssueFirstCall(@)]
                     /\ lastCall' = now

(* ------------------------------------------------------------------ *)
(* The event stream, the session directory, the handler's catch block  *)
(* ------------------------------------------------------------------ *)

Event(type, current, item) == [type |-> type, current |-> current, item |-> item]

\* res.write: after res.end() nothing more reaches the client; the write is counted
Write(st, ev) ==
    IF st.ended THEN [st EXCEPT !.afterEnd = @ + 1]
    ELSE [st EXCEPT !.events = Append(@, ev)]

RECURSIVE WriteAll(_, _)
WriteAll(st, evs) == IF evs = <<>> THEN st ELSE WriteAll(Write(st, Head(evs)), Tail(evs))

End(st) == [st EXCEPT !.ended = TRUE]

NoSession == [exists |-> FALSE, files |-> {}]

\* history: the items that had not passed checkJobState when cancelJob ran, and
\* the completed count plus the artifacts of the items then in flight
MarkCancel(res) ==
    IF res.error # "none" THEN cancelMark
    ELSE [done |-> TRUE,
          pre |-> cancelMark.pre \cup NotPastCheck,
          count |-> Len(jobs[h.jobId].completedTranscripts),
          budget |-> Len(jobs[h.jobId].completedTranscripts) + SumArtifacts(InFlight)]

CatchBlock_KeepsSession ==
    LET res == cancelJob(jobs, disk, h.jobId, now)
    IN  /\ stream' = End(Write(stream, Event("error", 0, 0)))
        /\ session' = session
        /\ jobs' = res.jobs
        /\ disk' = res.disk
        /\ cancelMark' = MarkCancel(res)
        /\ h' = [h EXCEPT !.pc = "failed"]

\* the handler's catch block (server.js 521-540): the fatal error event, res.end(),
\* the session directory removed, cancelJob with its own error swallowed
CatchBlock ==
    LET res == cancelJob(jobs, disk, h.jobId, now)
    IN  /\ stream' = End(Write(stream, Event("error", 0, 0)))
        /\ session' = NoSession
        /\ jobs' = res.jobs
        /\ disk' = res.disk
        /\ cancelMark' = MarkCancel(res)
        /\ h' = [h EXCEPT !.pc = "failed"]

\* the error events of the items of S that returned success: false, in index order
RECURSIVE ErrorEvents(_)
ErrorEvents(S) ==
    IF S = {} THEN <<>>
    ELSE LET i == CHOOSE x \in S : \A y \in S : x <= y
         IN  (IF items[i].pc = "failed" THEN <<Event("error", 0, i)>> ELSE <<>>)
             \o ErrorEvents(S \ {i})

(* ------------------------------------------------------------------ *)
(* The usage ledger costTracking (server.js 176-181, 278-287, 365-374) *)
(* ------------------------------------------------------------------ *)

\* message.usage of a response: absent, or with its token counts (a count may be
\* absent too)
NoUsage == [present |-> FALSE, input_tokens |-> Null, output_tokens |-> Null]
MessageUsages ==
    {NoUsage,
     [present |-> TRUE, input_tokens |-> 12, output_tokens |-> 700],
     [present |-> TRUE, input_tokens |-> 30, output_tokens |-> Null],
     [present |-> TRUE, input_tokens |-> 120000, output_tokens |-> 700]}
\* the usage of the responses of Spec
TypicalUsage == [present |-> TRUE, input_tokens |-> 12, output_tokens |-> 700]

\* x || 0
OrZero(x) == IF x = Null THEN 0 ELSE x

\* pricing.js extractUsage
extractUsage(usage) ==
    IF ~usage.present THEN [inputTokens |-> 0, outputTokens |-> 0]
    ELSE [inputTokens |-> OrZero(usage.input_tokens),
          outputTokens |-> OrZero(usage.output_tokens)]

NoCost == [usageRecords |-> <<>>, totalInputTokens |-> 0, totalOutputTokens |-> 0]

trackUsage_InputOnly(costTracking, usage, kind) ==
    [usageRecords |-> Append(costTracking.usageRecords,
                             [inputTokens |-> usage.inputTokens,
                              outputTokens |-> usage.outputTokens, type |-> kind]),
     totalInputTokens |-> costTracking.totalInputTokens + usage.inputTokens,
     totalOutputTokens |-> costTracking.totalOutputTokens]

\* usageRecords.push(...); totalInputTokens += ...; totalOutputTokens += ...
trackUsage(costTracking, usage, kind) ==
    [usageRecords |-> Append(costTracking.usageRecords,
                             [inputTokens |-> usage.inputTokens,
                              outputTokens |-> usage.outputTokens, type |-> kind]),
     totalInputTokens |-> costTracking.totalInputTokens + usage.inputTokens,
     totalOutputTokens |-> costTracking.totalOutputTokens + usage.outputTokens]

(* ------------------------------------------------------------------ *)
(* Initial state                                                       *)
(* ------------------------------------------------------------------ *)

EmptyMap == [x \in {} |-> 0]
NoResp == [op |-> "none", jobId |-> "none", error |-> "none"]
\* rt: the loop's state r, its argument maxRetries, apiCallMetrics.rateLimitErrors,
\* and the history of the run: when each fn() was called, when and how it
\* settled, and the delay given to each setTimeout
RetryIdle == [r |-> [RetryBegin EXCEPT !.pc = "idle"], maxRetries |-> 0,
              issued |-> <<>>, outcomes |-> <<>>, delays |-> <<>>, rateLimitErrors |-> 0]

InitMain ==
    /\ now = 0
    /\ jobs = EmptyMap
    /\ disk = EmptyMap
    /\ resp = NoResp
    /\ h = [pc |-> "idle", jobId |-> "job1", count |-> 0, currentProgress |-> 0,
            costTracking |-> NoCost, cleanupAt |-> Null, model |-> "none"]
    /\ items = EmptyMap
    /\ lastCall = 0
    /\ stream = [events |-> <<>>, ended |-> FALSE, afterEnd |-> 0]
    /\ session = NoSession
    /\ cancelMark = [done |-> FALSE, pre |-> {}, count |-> 0, budget |-> 0]

Init == InitMain /\ rt = RetryIdle /\ pl = PlanIdle /\ sp = SplitIdle

(* ------------------------------------------------------------------ *)
(* Promise continuations that run before the next event-loop turn      *)
(* ------------------------------------------------------------------ *)

AllSettledOk(S) == \A i \in S : items[i].pc \in {"ok", "failed"}
SomeRejected(S) == \E i \in S : items[i].pc = "rejected"

SeriesReady == h.pc = "series" /\ AllSettledOk(SeriesItems)
SinglesReady == h.pc = "singles" /\ AllSettledOk(SingleItems)
RejectReady ==
    \/ h.pc = "series" /\ SomeRejected(SeriesItems)
    \/ h.pc = "singles" /\ SomeRejected(SingleItems)

MicroPending == (\E i \in Items : CanStart(i)) \/ SeriesReady \/ SinglesReady \/ RejectReady

(* ------------------------------------------------------------------ *)
(* POST /generate (server.js 133-541)                                  *)
(* ------------------------------------------------------------------ *)

SUPPORTED_TRANSCRIPT_MODELS ==
    {"claude-3-7-sonnet-20250219", "claude-sonnet-4-5-20250929",
     "claude-opus-4-1-20250805", "claude-haiku-4-5-20251001"}
DefaultModel == "claude-sonnet-4-5-20250929"

\* req.body: the fields the client sent (present) and their values
BodyFields == {"apiKey", "transcriptCount", "prompt", "jobId", "model"}
GenerateBodies ==
    [present : {BodyFields} \cup {BodyFields \ {f} : f \in BodyFields},
     apiKey : {"key"},
     transcriptCount : {0, TranscriptCount},
     prompt : {"", "prompt"},
     jobId : JobIds,
     model : {"claude-haiku-4-5-20251001", "other-model"}]

\* the output-token ceilings of a call, per model (server.js 109-126)
TOKEN_LIMITS_BY_MODEL ==
    [m \in SUPPORTED_TRANSCRIPT_MODELS |->
        IF m = "claude-haiku-4-5-20251001"
        THEN [series |-> 7500, single |-> 7500]
        ELSE [series |-> 7500, single |-> 7000]]

\* TOKEN_LIMITS_BY_MODEL[model] || { series: 7500, single: 7000 }
getTokenLimits(model) ==
    IF model \in DOMAIN TOKEN_LIMITS_BY_MODEL THEN TOKEN_LIMITS_BY_MODEL[model]
    ELSE [series |-> 7500, single |-> 7000]

(* ------------------------------------------------------------------ *)
(* pricing.js: amounts of money are in millionths of a dollar, prices   *)
(* in tenths of a millionth of a dollar per token (dollars per million  *)
(* tokens, times 10)                                                    *)
(* ------------------------------------------------------------------ *)

MODEL_PRICING ==
    [m \in SUPPORTED_TRANSCRIPT_MODELS |->
        CASE m = "claude-haiku-4-5-20251001" ->
                [inputPrice |-> 8, outputPrice |-> 40, isDynamic |-> FALSE,
                 inputPriceOverLimit |-> Null, outputPriceOverLimit |-> Null,
                 tokenLimitThreshold |-> Null]
          [] m = "claude-3-7-sonnet-20250219" ->
                [inputPrice |-> 30, outputPrice |-> 150, isDynamic |-> FALSE,
                 inputPriceOverLimit |-> Null, outputPriceOverLimit |-> Null,
                 tokenLimitThreshold |-> Null]
          [] m = "claude-sonnet-4-5-20250929" ->
                [inputPrice |-> 30, outputPrice |-> 150, isDynamic |-> TRUE,
                 inputPriceOverLimit |-> 60, outputPriceOverLimit |-> 225,
                 tokenLimitThreshold |-> 200000]
          [] OTHER ->
                [inputPrice |-> 150, outputPrice |-> 750, isDynamic |-> FALSE,
                 inputPriceOverLimit |-> Null, outputPriceOverLimit |-> Null,
                 tokenLimitThreshold |-> Null]]

\* MODEL_PRICING[modelId] || MODEL_PRICING['claude-sonnet-4-5-20250929']
getPricing(modelId) ==
    IF modelId \in DOMAIN MODEL_PRICING THEN MODEL_PRICING[modelId]
    ELSE MODEL_PRICING["claude-sonnet-4-5-20250929"]

\* the rates for a prompt of inputTokens tokens
getPricingForPromptLength(modelId, inputTokens) ==
    LET basePricing == getPricing(modelId)
    IN  IF basePricing.isDynamic /\ inputTokens > basePricing.tokenLimitThreshold
        THEN [inputPrice |-> basePricing.inputPriceOverLimit,
              outputPrice |-> basePricing.outputPriceOverLimit,
              pricingTier |-> "over_limit"]
        ELSE [inputPrice |-> basePricing.inputPrice,
              outputPrice |-> basePricing.outputPrice,
              pricingTier |-> "standard"]

\* parseFloat(x.toFixed(6)) of an amount given in tenths of a millionth
toFixed6(x) == (x + 5) \div 10

calculateCost(inputTokens, outputTokens, modelId) ==
    LET pricing == getPricingForPromptLength(modelId, inputTokens)
        inputCost == inputTokens * pricing.inputPrice
        outputCost == outputTokens * pricing.outputPrice
    IN  [inputCost |-> toFixed6(inputCost),
         outputCost |-> toFixed6(outputCost),
         totalCost |-> toFixed6(inputCost + outputCost),
         pricingTier |-> pricing.pricingTier]

\* usageRecords.forEach(record => totalCost += calculateCost(...).totalCost), for
\* records that all name the model `model`
RECURSIVE calculateCumulativeCost(_, _)
calculateCumulativeCost(usageRecords, model) ==
    IF usageRecords = <<>> THEN 0
    ELSE calculateCost(Head(usageRecords).inputTokens, Head(usageRecords).outputTokens,
                       model).totalCost
         + calculateCumulativeCost(Tail(usageRecords), model)

\* !body.f: the field is undefined, the empty string or 0
Falsy(body, f) ==
    \/ f \notin body.present
    \/ f = "transcriptCount" /\ body.transcriptCount = 0
    \/ f = "prompt" /\ body.prompt = ""

\* model || 'claude-sonnet-4-5-20250929'
selectedModel(body) == IF "model" \in body.present THEN body.model ELSE DefaultModel

validateGenerate_NoModelCheck(body) ==
    IF \E f \in {"apiKey", "transcriptCount", "prompt", "jobId"} : Falsy(body, f)
    THEN "missing fields"
    ELSE "none"

\* the two early returns of the handler (server.js 136-144)
validateGenerate(body) ==
    IF \E f \in {"apiKey", "transcriptCount", "prompt", "jobId"} : Falsy(body, f)
    THEN "missing fields"
    ELSE IF selectedModel(body) \notin SUPPORTED_TRANSCRIPT_MODELS THEN "unsupported model"
    ELSE "none"

\* the request passes validation; the handler awaits generateCombos
GenerateRequestFor(n, model) ==
    /\ h.pc = "idle"
    /\ ~MicroPending
    /\ h' = [h EXCEPT !.pc = "combos", !.count = n, !.model = model]
    /\ stream' = Write(stream, Event("status", 0, 0))
    /\ UNCHANGED <<now, jobs, disk, resp, items, lastCall, session, cancelMark, rt, pl, sp>>

\* a request that names no model
GenerateRequest(n) == GenerateRequestFor(n, DefaultModel)

\* POST /generate with the body `body`: status 400 and nothing else when the
\* validation fails, otherwise the handler starts
PostGenerate(body) ==
    IF validateGenerate(body) # "none"
    THEN /\ ~MicroPending
         /\ resp' = [op |-> "generate", jobId |-> "none", error |-> validateGenerate(body)]
         /\ UNCHANGED <<now, jobs, disk, h, items, lastCall, stream, session, cancelMark,
                        rt, pl, sp>>
    ELSE /\ body.jobId = h.jobId
         /\ GenerateRequestFor(body.transcriptCount, selectedModel(body))

\* the grouping of server.js 194-208: one item per seriesId, in the order of their
\* first episode, then the singles
GroupItems(combos) ==
    LET nSeries == Cardinality({combos[i].seriesId :
                                    i \in {j \in DOMAIN combos : combos[j].isSeriesEpisode}})
        nSingle == Cardinality({i \in DOMAIN combos : ~combos[i].isSeriesEpisode})
    IN  [i \in 1..(nSeries + nSingle) |->
            [kind |-> IF i <= nSeries THEN "series" ELSE "single",
             pc |-> IF i <= nSeries THEN "queued" ELSE "grouped",
             r |-> [RetryBegin EXCEPT !.pc = "idle"],
             wakeAt |-> Null, calls |-> 0]]

\* what awaiting generateCombos can give: the plan or the error of an answer, or
\* the error of the collaborator call itself
CombosOutcomes(n) ==
    {generateCombos(n, a) : a \in PlanAnswers(n)} \cup {PlanError("call failed")}

\* the handler goes on with a plan that has transcriptCount units (server.js 168)
PlanAccepted(n, plan) == plan.ok /\ Len(plan.combos) = n

\* generateCombos returned the plan of the answer `answer`: createJob, the session
\* directory, the grouping, and the series items submitted to the pool
\* (server.js 168-422)
CombosResolveWith(answer) ==
    /\ h.pc = "combos"
    /\ ~MicroPending
    /\ PlanAccepted(h.count, generateCombos(h.count, answer))
    /\ LET res == createJob(jobs, disk, h.jobId, h.count, now)
       IN  /\ jobs' = res.jobs
           /\ disk' = res.disk
    /\ items' = GroupItems(generateCombos(h.count, answer).combos)
    /\ stream' = WriteAll(stream, <<Event("status", 0, 0), Event("status", 0, 0),
                                    Event("status", 0, 0)>>)
    /\ session' = [session EXCEPT !.exists = TRUE]
    /\ lastCall' = now
    /\ h' = [h EXCEPT !.pc = "series", !.currentProgress = 0, !.costTracking = NoCost]
    /\ UNCHANGED <<now, resp, cancelMark, rt, pl, sp>>

CombosResolve ==
    /\ h.pc = "combos"
    /\ \E answer \in PlanAnswers(h.count) : CombosResolveWith(answer)

\* generateCombos threw (the collaborator call, or the count checks on its
\* answer), or its plan has not transcriptCount units
CombosReject ==
    /\ h.pc = "combos"
    /\ ~MicroPending
    /\ \E plan \in CombosOutcomes(h.count) : ~PlanAccepted(h.count, plan)
    /\ CatchBlock
    /\ UNCHANGED <<now, resp, items, lastCall, rt, pl, sp>>

\* Promise.all(seriesPromises) resolved: the series' error events, then the
\* single items submitted to the pool (server.js 422-441)
SeriesDone ==
    /\ SeriesReady
    /\ stream' = WriteAll(stream, ErrorEvents(SeriesItems))
    /\ items' = [i \in Items |->
                   IF items[i].pc = "grouped" THEN [items[i] EXCEPT !.pc = "queued"]
                   ELSE items[i]]
    /\ h' = [h EXCEPT !.pc = "singles"]
    /\ UNCHANGED <<now, jobs, disk, resp, lastCall, session, cancelMark, rt, pl, sp>>

\* Promise.all(singlePromises) resolved: the singles' error events, then
\* createZipFile is awaited (server.js 441-459)
SinglesDone ==
    /\ SinglesReady
    /\ stream' = WriteAll(stream, ErrorEvents(SingleItems))
    /\ h' = [h EXCEPT !.pc = "zip"]
    /\ UNCHANGED <<now, jobs, disk, resp, items, lastCall, session, cancelMark, rt, pl, sp>>

\* an item threw 'Job cancelled' outside its try block: Promise.all rejects and
\* the handler's catch block runs while the other items go on
PoolRejected ==
    /\ RejectReady
    /\ CatchBlock
    /\ UNCHANGED <<now, resp, items, lastCall, rt, pl, sp>>

\* createZipFile resolved: completeJob, the complete event, res.end(), and the
\* timer that removes the session directory (server.js 462-519)
ZipResolve ==
    /\ h.pc = "zip"
    /\ ~MicroPending
    /\ LET res == completeJob(jobs, disk, h.jobId, now)
       IN  /\ res.error = "none"
           /\ jobs' = res.jobs
           /\ disk' = res.disk
    /\ stream' = End(Write(stream, Event("complete", h.currentProgress, 0)))
    /\ h' = [h EXCEPT !.pc = "done", !.cleanupAt = now + SESSION_CLEANUP_MS]
    /\ UNCHANGED <<now, resp, items, lastCall, session, cancelMark, rt, pl, sp>>

\* createZipFile rejected (the archiver's error event)
ZipReject ==
    /\ h.pc = "zip"
    /\ ~MicroPending
    /\ CatchBlock
    /\ UNCHANGED <<now, resp, items, lastCall, rt, pl, sp>>

\* the setTimeout of server.js 515-519
SessionCleanup ==
    /\ h.pc = "done"
    /\ ~MicroPending
    /\ now >= h.cleanupAt
    /\ session' = NoSession
    /\ h' = [h EXCEPT !.pc = "cleaned", !.cleanupAt = Null]
    /\ UNCHANGED <<now, jobs, disk, resp, items, lastCall, stream, cancelMark, rt, pl, sp>>

(* ------------------------------------------------------------------ *)
(* The work items: generateSeries (230-333), generateSingle (336-410)  *)
(* ------------------------------------------------------------------ *)

\* the pool starts the next queued item
StartItem(i) ==
    /\ CanStart(i)
    /\ EnterItem(i)
    /\ UNCHANGED <<now, jobs, disk, resp, h, stream, session, cancelMark, rt, pl, sp>>

\* the 500 ms timer of checkJobState's while loop fired
PausePoll(i) ==
    /\ i \in Items
    /\ items[i].pc = "pausewait"
    /\ ~MicroPending
    /\ now >= items[i].wakeAt
    /\ EnterItem(i)
    /\ UNCHANGED <<now, jobs, disk, resp, h, stream, session, cancelMark, rt, pl, sp>>

\* the timer of applyRateLimit fired: lastCall is stamped and the call goes out
RateTimer(i) ==
    /\ i \in Items
    /\ items[i].pc = "ratewait"
    /\ ~MicroPending
    /\ now >= items[i].wakeAt
    /\ items' = [items EXCEPT ![i] = IssueFirstCall(@)]
    /\ lastCall' = now
    /\ UNCHANGED <<now, jobs, disk, resp, h, stream, session, cancelMark, rt, pl, sp>>

SaveArtifact_StaleIndex(acc, i, e) ==
    LET name == <<i, e>>
        res == updateProgress(acc.jobs, acc.disk, h.jobId, h.currentProgress, name)
    IN  IF acc.threw THEN acc
        ELSE IF ~acc.session.exists THEN [acc EXCEPT !.threw = TRUE]
        ELSE IF res.error # "none"
        THEN [acc EXCEPT !.threw = TRUE, !.session.files = @ \cup {name}]
        ELSE [threw |-> FALSE,
              jobs |-> res.jobs,
              disk |-> res.disk,
              session |-> [acc.session EXCEPT !.files = @ \cup {name}],
              cp |-> acc.cp + 1,
              stream |-> Write(acc.stream, Event("progress", acc.cp + 1, i))]

\* one artifact of item i: writeFileSync, updateProgress, currentProgress++ and
\* the progress event; acc carries the state through the episodes' loop
SaveArtifact(acc, i, e) ==
    LET name == <<i, e>>
        res == updateProgress(acc.jobs, acc.disk, h.jobId, acc.cp, name)
    IN  IF acc.threw THEN acc
        ELSE IF ~acc.session.exists THEN [acc EXCEPT !.threw = TRUE]
        ELSE IF res.error # "none"
        THEN [acc EXCEPT !.threw = TRUE, !.session.files = @ \cup {name}]
        ELSE [threw |-> FALSE,
              jobs |-> res.jobs,
              disk |-> res.disk,
              session |-> [acc.session EXCEPT !.files = @ \cup {name}],
              cp |-> acc.cp + 1,
              stream |-> Write(acc.stream, Event("progress", acc.cp + 1, i))]

RECURSIVE SaveArtifacts(_, _, _, _)
SaveArtifacts(acc, i, e, k) ==
    IF e > k THEN acc ELSE SaveArtifacts(SaveArtifact(acc, i, e), i, e + 1, k)

\* anthropic.messages.create resolved with a message whose usage is `usage`: the
\* usage is added to the ledger and the item's artifacts are saved; an exception
\* on the way is caught and the item returns success: false
UpstreamOkWith(i, usage) ==
    /\ i \in Items
    /\ items[i].pc = "retry"
    /\ items[i].r.pc = "calling"
    /\ ~MicroPending
    /\ LET acc0 == [threw |-> FALSE, jobs |-> jobs, disk |-> disk, session |-> session,
                    cp |-> h.currentProgress, stream |-> stream]
           acc == SaveArtifacts(acc0, i, 1, Artifacts(items[i].kind))
       IN  /\ jobs' = acc.jobs
           /\ disk' = acc.disk
           /\ session' = acc.session
           /\ stream' = acc.stream
           /\ h' = [h EXCEPT !.currentProgress = acc.cp,
                             !.costTracking = trackUsage(@, extractUsage(usage),
                                                         items[i].kind)]
           /\ items' = [items EXCEPT
                           ![i].r = retryOnSuccess(@, "text"),
                           ![i].pc = IF acc.threw THEN "failed" ELSE "ok"]
    /\ UNCHANGED <<now, resp, lastCall, cancelMark, rt, pl, sp>>

UpstreamOk(i) == UpstreamOkWith(i, TypicalUsage)

UpstreamFail_Uncaught(i, e) ==
    /\ i \in Items
    /\ items[i].pc = "retry"
    /\ items[i].r.pc = "calling"
    /\ ~MicroPending
    /\ i <= MaxUnreliable
    /\ LET r2 == retryOnFailure(items[i].r, e, MAX_RETRIES, now)
       IN  items' = [items EXCEPT ![i].r = r2,
                                  ![i].pc = IF r2.pc = "thrown" THEN "rejected" ELSE "retry"]
    /\ UNCHANGED <<now, jobs, disk, resp, h, lastCall, stream, session, cancelMark, rt, pl, sp>>

\* anthropic.messages.create rejected with e: a backoff, or the error is caught
\* by the item's try block after the last attempt
UpstreamFail(i, e) ==
    /\ i \in Items
    /\ items[i].pc = "retry"
    /\ items[i].r.pc = "calling"
    /\ ~MicroPending
    /\ i <= MaxUnreliable
    /\ LET r2 == retryOnFailure(items[i].r, e, MAX_RETRIES, now)
       IN  items' = [items EXCEPT ![i].r = r2,
                                  ![i].pc = IF r2.pc = "thrown" THEN "failed" ELSE "retry"]
    /\ UNCHANGED <<now, jobs, disk, resp, h, lastCall, stream, session, cancelMark, rt, pl, sp>>

\* the backoff timer fired: the next attempt goes out
BackoffTimer(i) ==
    /\ i \in Items
    /\ items[i].pc = "retry"
    /\ items[i].r.pc = "backoff"
    /\ ~MicroPending
    /\ now >= items[i].r.wakeAt
    /\ items' = [items EXCEPT ![i].r = retryAfterBackoff(@), ![i].calls = @ + 1]
    /\ UNCHANGED <<now, jobs, disk, resp, h, lastCall, stream, session, cancelMark, rt, pl, sp>>

(* ------------------------------------------------------------------ *)
(* POST /pause, /resume, /cancel (server.js 544-607)                   *)
(* ------------------------------------------------------------------ *)

Respond(op, jobId, res) == [op |-> op, jobId |-> jobId, error |-> res.error]

PauseRequest(jobId) ==
    /\ ~MicroPending
    /\ LET res == pauseJob(jobs, disk, jobId, now)
       IN  /\ jobs' = res.jobs
           /\ disk' = res.disk
           /\ resp' = Respond("pause", jobId, res)
    /\ UNCHANGED <<now, h, items, lastCall, stream, session, cancelMark, rt, pl, sp>>

ResumeRequest(jobId) ==
    /\ ~MicroPending
    /\ LET res == resumeJob(jobs, disk, jobId)
       IN  /\ jobs' = res.jobs
           /\ disk' = res.disk
           /\ resp' = Respond("resume", jobId, res)
    /\ UNCHANGED <<now, h, items, lastCall, stream, session, cancelMark, rt, pl, sp>>

CancelRequest(jobId) ==
    /\ ~MicroPending
    /\ LET res == cancelJob(jobs, disk, jobId, now)
       IN  /\ jobs' = res.jobs
           /\ disk' = res.disk
           /\ resp' = Respond("cancel", jobId, res)
           /\ cancelMark' = MarkCancel(res)
    /\ UNCHANGED <<now, h, items, lastCall, stream, session, rt, pl, sp>>

\* GET /download-partial/:jobId (server.js 636-671): 404 when the job or the
\* session directory is missing, otherwise the archive of the directory
downloadPartial(js, sess, jobId) ==
    IF ~HasJob(js, jobId) THEN "job not found"
    ELSE IF ~sess.exists THEN "session not found"
    ELSE "none"

DownloadPartialRequest(jobId) ==
    /\ ~MicroPending
    /\ resp' = [op |-> "download", jobId |-> jobId,
                error |-> downloadPartial(jobs, session, jobId)]
    /\ UNCHANGED <<now, jobs, disk, h, items, lastCall, stream, session, cancelMark, rt, pl, sp>>

(* ------------------------------------------------------------------ *)
(* Time and the specifications                                         *)
(* ------------------------------------------------------------------ *)

\* the deadlines of the pending setTimeout calls
Deadlines ==
    {items[i].wakeAt : i \in {j \in Items : items[j].pc \in {"pausewait", "ratewait"}}}
    \cup {items[i].r.wakeAt : i \in {j \in Items : items[j].pc = "retry"
                                                  /\ items[j].r.pc = "backoff"}}
    \cup (IF h.pc = "done" THEN {h.cleanupAt} ELSE {})

\* Time passes. A timer's callback runs in the first turn of the event loop at or
\* after its deadline, so the clock does not pass a pending deadline; and the
\* clock is advanced only while its value can still change a decision of the
\* program: while a timer is pending or the pacing window of applyRateLimit is open.
Tick ==
    /\ ~MicroPending
    /\ now < MaxTicks * TickMs
    /\ \A d \in Deadlines : now < d
    /\ Deadlines # {} \/ (Active # {} /\ now - lastCall < RATE_LIMIT_DELAY_MS)
    /\ now' = now + TickMs
    /\ UNCHANGED <<jobs, disk, resp, h, items, lastCall, stream, session, cancelMark, rt, pl, sp>>

Next ==
    \/ GenerateRequest(TranscriptCount)
    \/ CombosResolve
    \/ CombosReject
    \/ SeriesDone
    \/ SinglesDone
    \/ PoolRejected
    \/ ZipResolve
    \/ ZipReject
    \/ SessionCleanup
    \/ \E i \in Items : StartItem(i)
    \/ \E i \in Items : PausePoll(i)
    \/ \E i \in Items : RateTimer(i)
    \/ \E i \in Items : UpstreamOk(i)
    \/ \E i \in Items, e \in ItemErrors : UpstreamFail(i, e)
    \/ \E i \in Items : BackoffTimer(i)
    \/ \E jobId \in JobIds : PauseRequest(jobId)
    \/ \E jobId \in JobIds : ResumeRequest(jobId)
    \/ \E jobId \in JobIds : CancelRequest(jobId)
    \/ Tick

Spec == Init /\ [][Next]_vars

\* a time of day after the clock's origin was moved forward by TickMs
Rebase(t) == IF t = Null THEN Null ELSE IF t < TickMs THEN 0 ELSE t - TickMs

\* Time passes, without end: instead of advancing the clock, its origin is moved
\* forward, which keeps the distance of the clock to every pending deadline and
\* to the pacing stamp (no later than one pacing window ago is all applyRateLimit
\* can tell). The stamps of the job record are not read by any decision of the
\* handler and are left as they are.
TickLive ==
    /\ ~MicroPending
    /\ \A d \in Deadlines : now < d
    /\ Deadlines # {} \/ (Active # {} /\ now - lastCall < RATE_LIMIT_DELAY_MS)
    /\ h' = [h EXCEPT !.cleanupAt = Rebase(@)]
    /\ items' = [i \in DOMAIN items |->
                    [items[i] EXCEPT !.wakeAt = Rebase(@), !.r.wakeAt = Rebase(@)]]
    /\ lastCall' = IF lastCall - TickMs < now - RATE_LIMIT_DELAY_MS
                   THEN now - RATE_LIMIT_DELAY_MS
                   ELSE lastCall - TickMs
    /\ UNCHANGED <<now, jobs, disk, resp, stream, session, cancelMark, rt, pl, sp>>

\* every upstream call attempt of item i returns
UpstreamReturns(i) == UpstreamOk(i) \/ \E e \in ItemErrors : UpstreamFail(i, e)

NextLive ==
    \/ GenerateRequest(TranscriptCount)
    \/ CombosResolve
    \/ SeriesDone
    \/ SinglesDone
    \/ PoolRejected
    \/ ZipResolve
    \/ ZipReject
    \/ SessionCleanup
    \/ \E i \in Items : StartItem(i)
    \/ \E i \in Items : PausePoll(i)
    \/ \E i \in Items : RateTimer(i)
    \/ \E i \in Items : UpstreamOk(i)
    \/ \E i \in Items, e \in ItemErrors : UpstreamFail(i, e)
    \/ \E i \in Items : BackoffTimer(i)
    \/ \E jobId \in JobIds : PauseRequest(jobId)
    \/ \E jobId \in JobIds : ResumeRequest(jobId)
    \/ \E jobId \in JobIds : CancelRequest(jobId)
    \/ TickLive

\* The event loop runs every callback that is ready (microtasks, expired timers,
\* settled promises), time passes, every upstream call returns and createZipFile
\* settles. The client's requests are under no obligation.
FairLive ==
    /\ WF_vars(SeriesDone) /\ WF_vars(SinglesDone) /\ WF_vars(PoolRejected)
    /\ WF_vars(ZipResolve \/ ZipReject)
    /\ WF_vars(TickLive)
    /\ \A i \in 1..TranscriptCount :
          /\ WF_vars(StartItem(i))
          /\ WF_vars(PausePoll(i))
          /\ WF_vars(RateTimer(i))
          /\ WF_vars(BackoffTimer(i))
          /\ WF_vars(UpstreamReturns(i))

SpecLive == Init /\ [][NextLive]_vars /\ FairLive

\* the same program on the smallest plan that has a series (1 series of 4
\* episodes and 6 singles), with an upstream that does not fail and a client
\* that cancels and downloads partial results but does not pause
NextSeries ==
    \/ GenerateRequest(SeriesCount)
    \/ CombosResolve
    \/ SeriesDone
    \/ SinglesDone
    \/ PoolRejected
    \/ ZipResolve
    \/ SessionCleanup
    \/ \E i \in Items : StartItem(i)
    \/ \E i \in Items : RateTimer(i)
    \/ \E i \in Items : UpstreamOk(i)
    \/ \E jobId \in JobIds : CancelRequest(jobId)
    \/ \E jobId \in JobIds : DownloadPartialRequest(jobId)
    \/ Tick

SpecSeries == Init /\ [][NextSeries]_vars

(* ------------------------------------------------------------------ *)
(* A second POST /generate with the jobId of a finished request        *)
(* ------------------------------------------------------------------ *)

\* the first request's handler has returned and none of its items is still
\* running; the client posts /generate again with the same jobId: a new handler
\* with a new response stream, and nothing of the old one left to run
GenerateAgain(n) ==
    /\ h.pc \in {"cleaned", "failed"}
    /\ \A i \in Items : items[i].pc \notin ActivePcs \cup {"queued"}
    /\ ~MicroPending
    /\ h' = [h EXCEPT !.pc = "combos", !.count = n, !.currentProgress = 0]
    /\ items' = EmptyMap
    /\ stream' = Write([events |-> <<>>, ended |-> FALSE, afterEnd |-> 0],
                       Event("status", 0, 0))
    /\ cancelMark' = [done |-> FALSE, pre |-> {}, count |-> 0, budget |-> 0]
    /\ UNCHANGED <<now, jobs, disk, resp, lastCall, session, rt, pl, sp>>

NextAgain ==
    \/ GenerateRequest(TranscriptCount)
    \/ GenerateAgain(TranscriptCount)
    \/ CombosResolve
    \/ SeriesDone
    \/ SinglesDone
    \/ PoolRejected
    \/ ZipResolve
    \/ SessionCleanup
    \/ \E i \in Items : StartItem(i)
    \/ \E i \in Items : RateTimer(i)
    \/ \E i \in Items : UpstreamOk(i)
    \/ \E jobId \in JobIds : CancelRequest(jobId)
    \/ Tick

SpecAgain == Init /\ [][NextAgain]_vars

(* ------------------------------------------------------------------ *)
(* The ledger under responses with any usage                           *)
(* ------------------------------------------------------------------ *)

\* the requests of Spec without a client that pauses or cancels, with the usage
\* of every response drawn from MessageUsages
NextLedger ==
    \/ GenerateRequest(TranscriptCount)
    \/ CombosResolve
    \/ SeriesDone
    \/ SinglesDone
    \/ ZipResolve
    \/ SessionCleanup
    \/ \E i \in Items : StartItem(i)
    \/ \E i \in Items : RateTimer(i)
    \/ \E i \in Items, usage \in MessageUsages : UpstreamOkWith(i, usage)
    \/ \E i \in Items, e \in ItemErrors : UpstreamFail(i, e)
    \/ \E i \in Items : BackoffTimer(i)
    \/ Tick

SpecLedger == Init /\ [][NextLedger]_vars

(* ------------------------------------------------------------------ *)
(* retryWithBackoff on its own: fn's outcomes drawn from bounded sets  *)
(* ------------------------------------------------------------------ *)

InitRetry ==
    /\ InitMain
    /\ pl = PlanIdle
    /\ sp = SplitIdle
    /\ \E m \in 0..MAX_RETRIES :
          rt = [r |-> RetryBegin, maxRetries |-> m, issued |-> <<0>>, outcomes |-> <<>>,
                delays |-> <<>>, rateLimitErrors |-> 0]

mainVars == <<jobs, disk, resp, h, items, lastCall, stream, session, cancelMark, pl, sp>>

\* await fn() returned v
RetryCallOk(v) ==
    /\ rt.r.pc = "calling"
    /\ rt' = [rt EXCEPT !.r = retryOnSuccess(@, v),
                        !.outcomes = Append(@, [at |-> now, ok |-> TRUE, out |-> v])]
    /\ UNCHANGED <<now, mainVars>>

\* await fn() threw e
RetryCallFail(e) ==
    /\ rt.r.pc = "calling"
    /\ LET r2 == retryOnFailure(rt.r, e, rt.maxRetries, now)
       IN  rt' = [rt EXCEPT
                    !.r = r2,
                    !.outcomes = Append(@, [at |-> now, ok |-> FALSE, out |-> e]),
                    !.delays = IF r2.pc = "backoff" THEN Append(@, r2.wakeAt - now) ELSE @,
                    !.rateLimitErrors = IF IsRateLimitError(e) THEN @ + 1 ELSE @]
    /\ UNCHANGED <<now, mainVars>>

\* the setTimeout of the backoff fired, at its deadline or later
RetryBackoffDone ==
    /\ rt.r.pc = "backoff"
    /\ now >= rt.r.wakeAt
    /\ rt' = [rt EXCEPT !.r = retryAfterBackoff(@), !.issued = Append(@, now)]
    /\ UNCHANGED <<now, mainVars>>

RetryTick ==
    /\ rt.r.pc \in {"calling", "backoff"}
    /\ now < MaxTicks * TickMs
    /\ now' = now + TickMs
    /\ UNCHANGED <<rt, mainVars>>

NextRetry ==
    \/ \E v \in Values : RetryCallOk(v)
    \/ \E e \in UpstreamErrors : RetryCallFail(e)
    \/ RetryBackoffDone
    \/ RetryTick

SpecRetry == InitRetry /\ [][NextRetry]_vars

(* ------------------------------------------------------------------ *)
(* generateCombos on its own: the answer drawn from bounded sets       *)
(* ------------------------------------------------------------------ *)

InitPlan ==
    /\ InitMain
    /\ rt = RetryIdle
    /\ sp = SplitIdle
    /\ \E n \in PlanCounts : \E a \in PlanAnswers(n) :
          pl = [pc |-> "asked", n |-> n, answer |-> a, result |-> PlanError("none")]

\* the collaborator's answer is parsed, validated and expanded
PlanAnswer ==
    /\ pl.pc = "asked"
    /\ pl' = [pl EXCEPT !.pc = "planned", !.result = generateCombos(pl.n, pl.answer)]
    /\ UNCHANGED <<now, jobs, disk, resp, h, items, lastCall, stream, session, cancelMark, rt, sp>>

NextPlan == PlanAnswer

SpecPlan == InitPlan /\ [][NextPlan]_vars

(* ------------------------------------------------------------------ *)
(* POST /generate with any body                                        *)
(* ------------------------------------------------------------------ *)

\* a client that posts well-formed and malformed generate requests at any time,
\* an upstream that does not fail
NextValidate ==
    \/ \E body \in GenerateBodies : PostGenerate(body)
    \/ CombosResolve
    \/ SeriesDone
    \/ SinglesDone
    \/ ZipResolve
    \/ SessionCleanup
    \/ \E i \in Items : StartItem(i)
    \/ \E i \in Items : RateTimer(i)
    \/ \E i \in Items : UpstreamOk(i)
    \/ Tick

SpecValidate == Init /\ [][NextValidate]_vars

(* ------------------------------------------------------------------ *)
(* The job state store on its own, and GET /job-status                 *)
(* ------------------------------------------------------------------ *)

\* the outcome of a call of the store, as its caller sees it
StoreApply(op, jobId, res) ==
    /\ h.pc = "idle"
    /\ jobs' = res.jobs
    /\ disk' = res.disk
    /\ resp' = Respond(op, jobId, res)
    /\ UNCHANGED <<now, h, items, lastCall, stream, session, cancelMark, rt, pl, sp>>

StoreCreate(jobId, n) ==
    /\ ~HasJob(jobs, jobId)
    /\ StoreApply("create", jobId, createJob(jobs, disk, jobId, n, now))

\* updateProgress with the next sequence position and its file
StoreProgress(jobId) ==
    /\ HasJob(jobs, jobId) => Len(jobs[jobId].completedTranscripts) < MaxStoreCount
    /\ LET k == IF HasJob(jobs, jobId) THEN Len(jobs[jobId].completedTranscripts) ELSE 0
       IN  StoreApply("progress", jobId, updateProgress(jobs, disk, jobId, k, <<0, k>>))

StoreComplete(jobId) == StoreApply("complete", jobId, completeJob(jobs, disk, jobId, now))

StoreCleanup(jobId) == StoreApply("cleanup", jobId, cleanupJob(jobs, disk, jobId))

\* GET /job-status/:jobId (server.js 610-633): 404 when getJobStats gives null
StatusRequest(jobId) ==
    /\ ~MicroPending
    /\ LET stats == getJobStats(jobs, jobId, now)
       IN  resp' = [op |-> "status", jobId |-> jobId,
                    error |-> IF stats = NoStats THEN "not found" ELSE "none",
                    stats |-> stats]
    /\ UNCHANGED <<now, jobs, disk, h, items, lastCall, stream, session, cancelMark, rt, pl, sp>>

StoreTick ==
    /\ h.pc = "idle"
    /\ now < MaxStoreTicks * TickMs
    /\ now' = now + TickMs
    /\ UNCHANGED <<jobs, disk, resp, h, items, lastCall, stream, session, cancelMark, rt, pl, sp>>

NextStore ==
    \/ \E jobId \in JobIds, n \in StoreCounts : StoreCreate(jobId, n)
    \/ \E jobId \in StoreIds : StoreProgress(jobId)
    \/ \E jobId \in StoreIds : h.pc = "idle" /\ PauseRequest(jobId)
    \/ \E jobId \in StoreIds : h.pc = "idle" /\ ResumeRequest(jobId)
    \/ \E jobId \in StoreIds : h.pc = "idle" /\ CancelRequest(jobId)
    \/ \E jobId \in StoreIds : StoreComplete(jobId)
    \/ \E jobId \in StoreIds : StoreCleanup(jobId)
    \/ \E jobId \in StoreIds : StatusRequest(jobId)
    \/ StoreTick

SpecStore == Init /\ [][NextStore]_vars

(* ------------------------------------------------------------------ *)
(* splitSeriesContent on its own: the text drawn from bounded sets     *)
(* ------------------------------------------------------------------ *)

InitSplit ==
    /\ InitMain
    /\ rt = RetryIdle
    /\ pl = PlanIdle
    /\ \E lines \in Contents :
          sp = [pc |-> "received", lines |-> lines, episodes |-> <<>>, saved |-> <<>>]

\* the series' text is split and one artifact is saved per segment, with the
\* episode number of the plan's episode at the segment's position
SplitContent ==
    /\ sp.pc = "received"
    /\ LET seriesEpisodes == SeriesEpisodes(0)
           episodes == splitSeriesContent(sp.lines, Len(seriesEpisodes))
       IN  sp' = [sp EXCEPT !.pc = "saved",
                            !.episodes = episodes,
                            !.saved = [k \in 1..Len(episodes) |->
                                          seriesEpisodes[k].episodeNumber]]
    /\ UNCHANGED <<now, jobs, disk, resp, h, items, lastCall, stream, session, cancelMark,
                   rt, pl>>

NextSplit == SplitContent

SpecSplit == InitSplit /\ [][NextSplit]_vars

(* ------------------------------------------------------------------ *)
(* Properties                                                          *)
(* ------------------------------------------------------------------ *)

TheJob == jobs["job1"]
Completed == IF HasJob(jobs, "job1") THEN Len(TheJob.completedTranscripts) ELSE 0

\* C1: at every moment the items that the pool has started and that have not
\* settled (in the pause-wait loop, in the pacing wait, calling upstream or in a
\* retry backoff) number at most the configured concurrency.
C1_PoolBound == Cardinality(Active) <= DEFAULT_CONCURRENCY

\* the pool is full, one of its items sits in a retry backoff, and an item waits
\* in the queue for a slot
C1_Witness ==
    /\ Cardinality(Active) = DEFAULT_CONCURRENCY
    /\ Queued # {}
    /\ \E i \in Active : items[i].pc = "retry" /\ items[i].r.pc = "backoff"

\* C2: any two items of a job issue their first upstream call at least
\* RATE_LIMIT_DELAY_MS apart. lastCall is the moment of the previous first call
\* (applyRateLimit stamps it as the call goes out), so the claim says that a step
\* in which an item issues its first call, after some item has issued one, finds
\* now - lastCall >= RATE_LIMIT_DELAY_MS.
C2_FirstCallsSpaced ==
    [][\A i \in Items :
          (/\ items[i].calls = 0
           /\ items'[i].calls = 1
           /\ \E j \in Items : items[j].calls > 0)
          => now - lastCall >= RATE_LIMIT_DELAY_MS]_vars

\* The outcomes of the stand-alone run so far
NumCalls == Len(rt.issued)
NumOutcomes == Len(rt.outcomes)
Failed(k) == ~rt.outcomes[k].ok

\* C3: retryWithBackoff calls fn at most maxRetries + 1 times, calls it no more
\* after its first success and returns that success value, and when all
\* maxRetries + 1 attempts fail it throws the error of the last attempt.
C3_RetryBound ==
    /\ NumCalls <= rt.maxRetries + 1
    /\ NumOutcomes \in {NumCalls - 1, NumCalls}
    /\ \A k \in 1..NumOutcomes : rt.outcomes[k].ok => k = NumOutcomes /\ NumCalls = k
    /\ rt.r.pc = "returned" <=> (NumOutcomes > 0 /\ rt.outcomes[NumOutcomes].ok)
    /\ rt.r.pc = "returned" => rt.r.value = rt.outcomes[NumOutcomes].out
    /\ rt.r.pc = "thrown" <=>
          (NumOutcomes = rt.maxRetries + 1 /\ \A k \in 1..NumOutcomes : Failed(k))
    /\ rt.r.pc = "thrown" => rt.r.lastError = rt.outcomes[NumOutcomes].out

\* all three attempts of a run with maxRetries = 2 failed, the last one with an
\* error other than the first one's
C3_Witness ==
    /\ rt.maxRetries = MAX_RETRIES
    /\ rt.r.pc = "thrown"
    /\ NumCalls = MAX_RETRIES + 1
    /\ rt.outcomes[1].out # rt.outcomes[NumOutcomes].out

RECURSIVE SumDelays(_)
SumDelays(k) == IF k = 0 THEN 0 ELSE RETRY_DELAY_MS * Pow2(k - 1) + SumDelays(k - 1)

\* C4: when fn fails k times and then succeeds (k <= maxRetries) it is called
\* k + 1 times, the success value is returned, the delay given to the timer
\* before attempt i + 1 is RETRY_DELAY_MS * 2^i (0-based i), that attempt is not
\* made before the delay has passed, and the run has lasted at least the sum of
\* the delays.
C4_BackoffDelays ==
    /\ \A i \in 1..Len(rt.delays) : rt.delays[i] = RETRY_DELAY_MS * Pow2(i - 1)
    /\ \A i \in 1..NumCalls - 1 :
          /\ Failed(i)
          /\ rt.issued[i + 1] - rt.outcomes[i].at >= RETRY_DELAY_MS * Pow2(i - 1)
    /\ rt.r.pc = "returned" =>
          /\ NumCalls = NumOutcomes
          /\ Len(rt.delays) = NumCalls - 1
          /\ \A i \in 1..NumCalls - 1 : Failed(i)
          /\ rt.r.value = rt.outcomes[NumOutcomes].out
          /\ now - rt.issued[1] >= SumDelays(NumCalls - 1)

\* fn failed twice and then succeeded
C4_Witness ==
    /\ rt.r.pc = "returned"
    /\ NumCalls = 3
    /\ rt.delays = <<RETRY_DELAY_MS, 2 * RETRY_DELAY_MS>>

\* C5: cancelled and completed are terminal: no step changes the state of a job
\* that is cancelled or completed.
C5_TerminalStates ==
    [][\A id \in JobIds :
          (HasJob(jobs, id) /\ jobs[id].state \in {"cancelled", "completed"})
          => (HasJob(jobs', id) /\ jobs'[id].state = jobs[id].state)]_vars

\* C6: an item that had not passed its job-state check when the job was
\* cancelled (grouped or queued for the pool, or in the pause-wait loop) issues
\* no upstream call: it stays where it is until it is started or polls, and then
\* it settles by throwing.
C6_NoCallAfterCancel ==
    \A i \in cancelMark.pre :
        /\ items[i].calls = 0
        /\ items[i].pc \in {"grouped", "queued", "pausewait", "rejected"}

\* after a cancel, an item that was not past its check has settled without a
\* call, while an item that was in flight has gone on to complete
C6_Witness ==
    /\ \E i \in cancelMark.pre : items[i].pc = "rejected" /\ items[i].calls = 0
    /\ Completed > cancelMark.count

\* C7: after a cancel the number of completed artifacts never exceeds the number
\* at the moment of the cancel plus the artifacts of the items then in flight.
C7_CancelBudget == cancelMark.done => Completed <= cancelMark.budget

\* a series was in flight at the cancel and its 4 episodes were recorded after it
C7_Witness ==
    /\ cancelMark.done
    /\ Completed = cancelMark.budget
    /\ Completed >= cancelMark.count + EPISODES_PER_SERIES

\* C8: an item that reaches its job-state check while the job is paused waits
\* without calling upstream for as long as the job stays paused; it leaves the
\* wait for the upstream call only on observing running, and it settles without
\* a call on observing cancelled (or no job).
C8_PauseWait ==
    [][\A i \in Items :
          /\ (items[i].pc = "queued" /\ items'[i].pc # "queued"
                /\ JobState(jobs, h.jobId) = "paused")
             => items'[i].pc = "pausewait" /\ items'[i].calls = 0
          /\ items[i].pc = "pausewait" =>
                /\ items[i].calls = 0
                /\ items'[i].pc \in {"pausewait", "ratewait", "retry", "rejected"}
                /\ JobState(jobs, h.jobId) = "paused"
                      => items'[i].pc = "pausewait" /\ items'[i].calls = 0
                /\ items'[i].pc \in {"ratewait", "retry"}
                      => JobState(jobs, h.jobId) = "running"
                /\ items'[i].pc = "rejected"
                      => /\ JobState(jobs, h.jobId) \in {"cancelled", "none"}
                         /\ items'[i].calls = 0]_vars

\* the job is paused, an item's poll timer is due and it has issued no call,
\* while another item has called upstream
C8_Witness ==
    /\ JobState(jobs, "job1") = "paused"
    /\ \E i \in Items : /\ items[i].pc = "pausewait"
                        /\ now >= items[i].wakeAt
                        /\ now >= TheJob.pausedAt + 2 * PAUSE_POLL_MS
    /\ \E j \in Items : items[j].calls > 0

\* C9: pause succeeds only from running, and then sets state paused and stamps
\* pausedAt; from paused, cancelled or completed it fails with the
\* invalid-transition error and changes nothing.
C9_Pause ==
    [][\A id \in JobIds :
          (PauseRequest(id) /\ HasJob(jobs, id)) =>
              IF jobs[id].state = "running"
              THEN /\ resp' = [op |-> "pause", jobId |-> id, error |-> "none"]
                   /\ jobs'[id] = [jobs[id] EXCEPT !.state = "paused", !.pausedAt = now]
              ELSE /\ resp' = [op |-> "pause", jobId |-> id, error |-> "cannot pause"]
                   /\ jobs' = jobs]_vars

\* a pause of a job that is already paused was refused
C9_Witness ==
    /\ resp = [op |-> "pause", jobId |-> "job1", error |-> "cannot pause"]
    /\ JobState(jobs, "job1") = "paused"
    /\ TheJob.pausedAt < now

\* C10: resume succeeds only from paused, and then sets state running and clears
\* pausedAt; from running, cancelled or completed it fails with the
\* invalid-transition error and changes nothing.
C10_Resume ==
    [][\A id \in JobIds :
          (ResumeRequest(id) /\ HasJob(jobs, id)) =>
              IF jobs[id].state = "paused"
              THEN /\ resp' = [op |-> "resume", jobId |-> id, error |-> "none"]
                   /\ jobs'[id].state = "running"
                   /\ jobs'[id].pausedAt = Null
              ELSE /\ resp' = [op |-> "resume", jobId |-> id, error |-> "cannot resume"]
                   /\ jobs' = jobs]_vars

\* a resume of a running job was refused
C10_Witness ==
    /\ resp = [op |-> "resume", jobId |-> "job1", error |-> "cannot resume"]
    /\ JobState(jobs, "job1") = "running"
    /\ Completed > 0

\* the answer has the requested structure: floor(n/10) entries tagged series and
\* n - 4 * floor(n/10) entries tagged single, and nothing else
PlanMatches(n, a) ==
    /\ \A i \in DOMAIN a : a[i] \in {"series", "single"}
    /\ Cardinality({i \in DOMAIN a : a[i] = "series"}) = n \div 10
    /\ Cardinality({i \in DOMAIN a : a[i] = "single"}) = n - 4 * (n \div 10)

PlanUnits == pl.result.combos
SeriesIdsOf(c) == {c[i].seriesId : i \in {j \in DOMAIN c : c[j].isSeriesEpisode}}
UnitsOfSeries(c, sid) == {i \in DOMAIN c : c[i].isSeriesEpisode /\ c[i].seriesId = sid}
Least(S) == CHOOSE x \in S : \A y \in S : x <= y

PlanMismatch(n, a) ==
    \/ Len(a) # (n \div 10) + (n - 4 * (n \div 10))
    \/ Cardinality({i \in DOMAIN a : a[i] \in {"series", "seriesAndSingle"}}) # n \div 10
    \/ Cardinality({i \in DOMAIN a : a[i] \in {"single", "seriesAndSingle"}})
          # n - 4 * (n \div 10)

\* C18: when the collaborator's answer mismatches the requested structure (its
\* length, or its number of series-tagged or single-tagged entries), planning
\* fails, the generate request does not go on with that answer, and the step it
\* takes instead leaves no job record (in memory or on disk) and no work item,
\* hence no transcript upstream call.
C18_PlanMismatch ==
    [][h.pc = "combos" =>
          /\ \A a \in PlanAnswers(h.count) :
                PlanMismatch(h.count, a) =>
                    /\ ~generateCombos(h.count, a).ok
                    /\ ~CombosResolveWith(a)
          /\ CombosReject =>
                /\ ~HasJob(jobs', h.jobId)
                /\ ~HasJob(disk', h.jobId)
                /\ items' = EmptyMap
                /\ \A i \in DOMAIN items' : items'[i].calls = 0]_vars

\* the generate request failed at planning: the fatal error event was written and
\* the stream ended, with no job record and no work item
C18_Witness ==
    /\ h.pc = "failed"
    /\ Items = {}
    /\ ~HasJob(jobs, h.jobId)
    /\ stream.ended
    /\ stream.events[Len(stream.events)].type = "error"
    /\ \E a \in PlanAnswers(h.count) : PlanMismatch(h.count, a) /\ Len(a) = NumItems(h.count)

\* C11: cancel is accepted only from running or paused, where it sets state
\* cancelled and stamps cancelledAt; on a job that is already completed or
\* cancelled it fails with the invalid-transition error and changes nothing.
C11_Cancel ==
    [][\A id \in JobIds :
          (CancelRequest(id) /\ HasJob(jobs, id)) =>
              IF jobs[id].state \in {"running", "paused"}
              THEN /\ resp' = [op |-> "cancel", jobId |-> id, error |-> "none"]
                   /\ jobs'[id].state = "cancelled"
                   /\ jobs'[id].cancelledAt = now
              ELSE /\ resp' = [op |-> "cancel", jobId |-> id, error |-> "cannot cancel"]
                   /\ jobs' = jobs]_vars

InvalidTransition == {"cannot pause", "cannot resume", "cannot cancel"}

\* C12: a pause, resume or cancel request that is rejected as an invalid
\* transition leaves the job as it was: its record in memory (state, pausedAt,
\* cancelledAt, completedAt, progress log, cancellation signal) and its persisted
\* copy are the same after the request as before it.  (A request is a step that
\* touches neither the handler nor the items.)
C12_RejectedUnchanged ==
    [][\A id \in JobIds :
          \/ jobs' = jobs /\ disk' = disk
          \/ ~(/\ resp'.error \in InvalidTransition
               /\ UNCHANGED <<h, items>>
               /\ PauseRequest(id) \/ ResumeRequest(id) \/ CancelRequest(id))]_vars

\* a resume of a cancelled job with artifacts in its log was refused; the record
\* on disk is the record in memory
C12_Witness ==
    /\ resp = [op |-> "resume", jobId |-> "job1", error |-> "cannot resume"]
    /\ JobState(jobs, "job1") = "cancelled"
    /\ TheJob.aborted
    /\ Completed > 0
    /\ disk["job1"] = Persisted(TheJob)

\* C13: create fails when a job with that identifier already exists and leaves the
\* existing job (its state and its progress log) untouched; only for a new
\* identifier does it create a job in state running with an empty progress log.
\* The handler's createJob runs in the step CombosResolve.
C13_CreateOnce ==
    [][CombosResolve =>
          IF HasJob(jobs, h.jobId)
          THEN /\ jobs'[h.jobId].state = jobs[h.jobId].state
               /\ jobs'[h.jobId].completedTranscripts = jobs[h.jobId].completedTranscripts
          ELSE /\ jobs'[h.jobId].state = "running"
               /\ jobs'[h.jobId].completedTranscripts = <<>>]_vars

\* C14: in every reachable state the completed-artifact log of a job has at most
\* as many records as the job's requested count, whatever the order in which the
\* concurrently running items complete.
C14_LogWithinTotal ==
    \A id \in JobIds :
        HasJob(jobs, id) => Len(jobs[id].completedTranscripts) <= jobs[id].transcriptCount

\* every artifact of the plan of 10 is recorded (the 4 episodes of the series
\* and the 6 singles) and the handler has not yet completed the job
C14_Witness ==
    /\ JobState(jobs, "job1") = "running"
    /\ TheJob.transcriptCount = SeriesCount
    /\ Completed = TheJob.transcriptCount
    /\ \A i \in Items : items[i].pc = "ok"

\* the items whose upstream call failed on every attempt
ExhaustedItems == {i \in Items : items[i].r.pc = "thrown"}
HasErrorEvent(i) ==
    \E k \in DOMAIN stream.events :
        stream.events[k].type = "error" /\ stream.events[k].item = i
Recorded(i) ==
    \E k \in DOMAIN TheJob.completedTranscripts :
        TheJob.completedTranscripts[k].fileName[1] = i

\* C15: an item whose upstream call fails after all retries does not abort the
\* job. While the job is not cancelled the handler goes on and no item is
\* rejected; once all items have settled, every item has its own outcome (the
\* items whose calls succeed have recorded their artifact), an error event has
\* been written for each failed item, and the handler of a job that was not
\* cancelled ends with the job in state completed.
C15_ItemFailureIsolated ==
    /\ (ExhaustedItems # {} /\ ~cancelMark.done) =>
          /\ h.pc \in {"series", "singles", "zip", "done", "cleaned"}
          /\ \A i \in Items : items[i].pc # "rejected"
    /\ h.pc \in {"zip", "done", "cleaned"} =>
          \A i \in Items :
              /\ items[i].pc \in {"ok", "failed"}
              /\ items[i].pc = "failed" => HasErrorEvent(i)
              /\ i > MaxUnreliable => items[i].pc = "ok" /\ Recorded(i)
    /\ (h.pc \in {"done", "cleaned"} /\ ~cancelMark.done) =>
          JobState(jobs, h.jobId) = "completed"

\* the first item failed on all MAX_RETRIES + 1 attempts, the others recorded
\* their artifacts, the error event of the first item was written and the job
\* ended completed
C15_Witness ==
    /\ h.pc = "done"
    /\ 1 \in ExhaustedItems
    /\ items[1].pc = "failed"
    /\ items[1].calls = MAX_RETRIES + 1
    /\ \A i \in Items \ {1} : items[i].pc = "ok" /\ Recorded(i)
    /\ HasErrorEvent(1)
    /\ ~cancelMark.done
    /\ JobState(jobs, "job1") = "completed"
    /\ stream.events[Len(stream.events)].type = "complete"

Ledger == h.costTracking
RECURSIVE SumInput(_)
SumInput(records) ==
    IF records = <<>> THEN 0 ELSE Head(records).inputTokens + SumInput(Tail(records))
RECURSIVE SumOutput(_)
SumOutput(records) ==
    IF records = <<>> THEN 0 ELSE Head(records).outputTokens + SumOutput(Tail(records))
SucceededCalls == {i \in Items : items[i].r.pc = "returned"}

\* C16: in every reachable state the ledger's cumulative input tokens are the sum
\* of the input tokens of its usage records, and its cumulative output tokens the
\* sum of their output tokens, whatever the order in which the concurrent calls
\* complete; the ledger has one record per call that succeeded, so a failed call
\* adds neither a record nor tokens.
C16_LedgerConsistent ==
    /\ Ledger.totalInputTokens = SumInput(Ledger.usageRecords)
    /\ Ledger.totalOutputTokens = SumOutput(Ledger.usageRecords)
    /\ Len(Ledger.usageRecords) = Cardinality(SucceededCalls)

\* three responses were recorded, one without usage and one without its output
\* count, after a call of the first item had failed
C16_Witness ==
    /\ Len(Ledger.usageRecords) = 3
    /\ \E k \in 1..3 : Ledger.usageRecords[k] = [inputTokens |-> 0, outputTokens |-> 0,
                                                 type |-> "single"]
    /\ \E k \in 1..3 : Ledger.usageRecords[k] = [inputTokens |-> 30, outputTokens |-> 0,
                                                 type |-> "single"]
    /\ Ledger.totalInputTokens = 42
    /\ Ledger.totalOutputTokens = 700
    /\ items[1].r.attempt > 0

LogFiles == {TheJob.completedTranscripts[k].fileName : k \in DOMAIN TheJob.completedTranscripts}

\* C19: artifacts are not rolled back by cancellation. While a job that was
\* cancelled before its handler completed it has records in its progress log,
\* the file of every record is in the session directory and the partial download
\* packages the directory.
C19_ArtifactsKept ==
    (/\ HasJob(jobs, "job1")
     /\ TheJob.state = "cancelled"
     /\ h.pc \notin {"done", "cleaned"}
     /\ LogFiles # {})
    => /\ session.exists
       /\ LogFiles \subseteq session.files
       /\ downloadPartial(jobs, session, "job1") = "none"

\* C20: a user's cancel is not reported as an error. In SpecSeries no upstream
\* call, plan or archive fails, so the cancel is the only thing that can go
\* wrong: no error event, fatal or per item, is ever written to the stream.
C20_CancelNoErrorEvent ==
    \A k \in DOMAIN stream.events : stream.events[k].type # "error"

(* ------------------------------------------------------------------ *)
(* Job-level failures                                                  *)
(* ------------------------------------------------------------------ *)

\* the positions on the stream of the catch block's error events and of the
\* complete events
TerminalErrors ==
    {k \in DOMAIN stream.events : stream.events[k] = Event("error", 0, 0)}
CompleteEvents == {k \in DOMAIN stream.events : stream.events[k].type = "complete"}

\* the handler ended in its catch block and no item threw 'Job cancelled': the
\* planning failed (no item exists) or the packaging failed (every item returned)
JobLevelFailure == h.pc = "failed" /\ \A i \in Items : items[i].pc \in {"ok", "failed"}

\* C21: after a job-level failure (generateCombos threw, the plan has not the
\* requested number of units, or createZipFile rejected) the session directory
\* and the files in it are gone, the stream has exactly one terminal error
\* event, which is its last event, the stream is ended, and it has no complete
\* event.
C21_JobFailure ==
    JobLevelFailure =>
        /\ session = NoSession
        /\ stream.ended
        /\ TerminalErrors = {Len(stream.events)}
        /\ CompleteEvents = {}
        /\ stream.afterEnd = 0

\* the packaging failed after artifacts had been written and recorded
C21_Witness ==
    /\ JobLevelFailure
    /\ Items # {}
    /\ HasJob(jobs, "job1")
    /\ Len(TheJob.completedTranscripts) >= 2
    /\ \E i \in Items : items[i].pc = "failed"

(* ------------------------------------------------------------------ *)
(* Persistence                                                         *)
(* ------------------------------------------------------------------ *)

\* C22: the state persisted under a job's id is the job's id, state, timestamps
\* (start, paused, cancelled, completed), total, in-progress index and progress
\* log as they are in memory, after every operation of the store, and loading
\* it gives those values.
C22_PersistedEqualsMemory ==
    \A id \in JobIds :
        HasJob(jobs, id) =>
            /\ HasJob(disk, id)
            /\ LET st == loadJobState(disk, id)
                   job == jobs[id]
               IN  /\ st.id = job.id
                   /\ st.state = job.state
                   /\ st.startTime = job.startTime
                   /\ st.pausedAt = job.pausedAt
                   /\ st.cancelledAt = job.cancelledAt
                   /\ st.completedAt = job.completedAt
                   /\ st.transcriptCount = job.transcriptCount
                   /\ st.inProgressIndex = job.inProgressIndex
                   /\ st.completedTranscripts = job.completedTranscripts

\* a job that was paused, resumed and cancelled after it recorded an artifact
C22_Witness ==
    /\ HasJob(jobs, "job1")
    /\ TheJob.state = "cancelled"
    /\ TheJob.cancelledAt > TheJob.startTime
    /\ Len(TheJob.completedTranscripts) >= 1
    /\ resp.op = "resume" /\ resp.error = "none"

(* ------------------------------------------------------------------ *)
(* The store: statistics, cleanup, unknown identifiers                 *)
(* ------------------------------------------------------------------ *)

\* C23: the statistics of a job with no completed artifact and at least one
\* pending artifact have a finite remaining-time estimate.
C23_EstimateFinite ==
    (/\ resp.op = "status"
     /\ resp.error = "none"
     /\ resp.stats.completedCount = 0
     /\ resp.stats.pendingCount > 0)
    => resp.stats.estimatedTimeRemaining.kind = "finite"

\* C24: cleanup of any identifier returns without an error, whatever the state
\* of the job it names and also when the store holds no such job; afterwards
\* the store has neither a record in memory nor a persisted state for it, a
\* status query for it finds nothing, and the other jobs are as they were.
C24_Cleanup ==
    [][\A id \in StoreIds :
          StoreCleanup(id) =>
              /\ resp' = [op |-> "cleanup", jobId |-> id, error |-> "none"]
              /\ ~HasJob(jobs', id)
              /\ ~HasJob(disk', id)
              /\ loadJobState(disk', id) = Null
              /\ getJobStats(jobs', id, now') = NoStats
              /\ \A other \in StoreIds \ {id} :
                    /\ HasJob(jobs', other) = HasJob(jobs, other)
                    /\ HasJob(disk', other) = HasJob(disk, other)]_vars

\* the job was created and cancelled, and the last call removed it
C24_Witness ==
    /\ resp = [op |-> "cleanup", jobId |-> "job1", error |-> "none"]
    /\ cancelMark.done
    /\ jobs = EmptyMap
    /\ disk = EmptyMap

\* C25: pause, resume, cancel and status on an identifier the store does not
\* hold answer not found, and leave the store without a record in memory and
\* without a persisted state for that identifier.
C25_UnknownJob ==
    [][\A id \in StoreIds :
          (/\ ~HasJob(jobs, id)
           /\ \/ PauseRequest(id)
              \/ ResumeRequest(id)
              \/ CancelRequest(id)
              \/ StatusRequest(id))
          => /\ resp'.jobId = id
             /\ resp'.error = "not found"
             /\ ~HasJob(jobs', id)
             /\ jobs' = jobs
             /\ disk' = disk]_vars

\* a pause of the identifier that was never created was refused while the store
\* holds another job
C25_Witness ==
    /\ resp = [op |-> "pause", jobId |-> "job2", error |-> "not found"]
    /\ HasJob(jobs, "job1")
    /\ ~HasJob(jobs, "job2")
    /\ ~HasJob(disk, "job2")

(* ------------------------------------------------------------------ *)
(* Validation of the generate request                                  *)
(* ------------------------------------------------------------------ *)

\* the body lacks the credential, the count, the prompt or the job identifier,
\* or names a model that is not supported
Malformed(body) ==
    \/ \E f \in {"apiKey", "transcriptCount", "prompt", "jobId"} : f \notin body.present
    \/ "model" \in body.present /\ body.model \notin SUPPORTED_TRANSCRIPT_MODELS

\* C26: a generate request that lacks the credential, the count, the prompt or
\* the job identifier, or that names an unsupported model, is answered with an
\* error and nothing else happens: the jobs in memory and on disk, the
\* handler, the work items and their calls, the pacing stamp, the session
\* directory and the event stream are as before.
C26_RejectedBeforeWork ==
    [][\A body \in GenerateBodies :
          (Malformed(body) /\ PostGenerate(body)) =>
              /\ resp'.op = "generate"
              /\ resp'.error \in {"missing fields", "unsupported model"}
              /\ UNCHANGED <<jobs, disk, h, items, lastCall, stream, session>>]_vars

\* a request naming an unsupported model was refused while an earlier request
\* was generating
C26_Witness ==
    /\ resp = [op |-> "generate", jobId |-> "none", error |-> "unsupported model"]
    /\ h.pc = "singles"
    /\ \E i \in Items : items[i].calls > 0

(* ------------------------------------------------------------------ *)
(* Pause followed by resume                                            *)
(* ------------------------------------------------------------------ *)

\* the units of the plan that are not finished: the items that have not settled
PendingItems == {i \in Items : items[i].pc \notin SettledPcs}

\* C27: a pause and a resume each leave the job's total, its progress log and
\* the work items (the plan and what is pending of it) unchanged, and resuming
\* a running job right after pausing it gives back the job as it was before
\* the pause, in memory and on disk.
C27_PauseResume ==
    [][\A id \in JobIds :
          /\ \/ ~HasJob(jobs, id)
             \/ /\ HasJob(jobs', id)
                /\ jobs'[id].transcriptCount = jobs[id].transcriptCount
                /\ jobs'[id].completedTranscripts = jobs[id].completedTranscripts
                /\ items' = items
             \/ ~(PauseRequest(id) \/ ResumeRequest(id))
          /\ (HasJob(jobs, id) /\ jobs[id].state = "running") =>
                LET p == pauseJob(jobs, disk, id, now)
                    r == resumeJob(p.jobs, p.disk, id)
                IN  /\ p.error = "none"
                    /\ p.jobs[id].state = "paused"
                    /\ r.error = "none"
                    /\ r.jobs = jobs
                    /\ r.disk = disk]_vars

\* a job with a recorded artifact and pending items was paused and resumed, and
\* nothing has happened since
C27_Witness ==
    /\ resp = [op |-> "resume", jobId |-> "job1", error |-> "none"]
    /\ HasJob(jobs, "job1")
    /\ TheJob.state = "running"
    /\ Len(TheJob.completedTranscripts) = 1
    /\ Cardinality(PendingItems) = 2

(* ------------------------------------------------------------------ *)
(* Submission of the work items                                        *)
(* ------------------------------------------------------------------ *)

\* C28: every work item, series or single, is in the pool from the start of the
\* job on: once the items exist none of them waits outside the pool, so a
\* single item can be started while a series item has not settled.
C28_AllSubmittedAtStart == \A i \in Items : items[i].pc # "grouped"

\* a single item has left the pool's queue while a series item has not settled
\* (no state of SpecSeries satisfies it)
SingleBesideSeries ==
    \E i \in SingleItems, j \in SeriesItems :
        /\ items[i].pc \notin {"grouped", "queued"}
        /\ items[j].pc \notin SettledPcs

(* ------------------------------------------------------------------ *)
(* Sequence positions                                                  *)
(* ------------------------------------------------------------------ *)

IsProgress(ev) == ev.type = "progress"
\* the progress events on the stream, in the order they were written
ProgressEvents == SelectSeq(stream.events, IsProgress)

\* C29: the k-th record of a job's progress log has the sequence position
\* k - 1, and the log has one record for every artifact the handler counted
\* (no gap, no duplicate, no lost record); the k-th progress event on the
\* stream has current = k, which is at most the job's total.
C29_SequencePositions ==
    /\ \A id \in JobIds :
          HasJob(jobs, id) =>
              /\ \A k \in 1..Len(jobs[id].completedTranscripts) :
                    jobs[id].completedTranscripts[k].index = k - 1
              /\ Len(jobs[id].completedTranscripts) = h.currentProgress
    /\ \A k \in 1..Len(ProgressEvents) :
          /\ ProgressEvents[k].current = k
          /\ ProgressEvents[k].current <= h.count
    /\ Len(ProgressEvents) <= h.currentProgress
    /\ ~stream.ended => Len(ProgressEvents) = h.currentProgress

\* two single items are in flight at once after the series' four episodes and
\* one single were recorded
C29_Witness ==
    /\ HasJob(jobs, "job1")
    /\ Len(TheJob.completedTranscripts) = 5
    /\ Len(ProgressEvents) = 5
    /\ Cardinality({i \in SingleItems : items[i].pc = "retry"}) = 2

(* ------------------------------------------------------------------ *)
(* The split of a series' text                                         *)
(* ------------------------------------------------------------------ *)

\* the positions of the marker lines of the text, and the k-th of them
MarkerLines == {k \in DOMAIN sp.lines : sp.lines[k].marker}
MarkerAt(k) == CHOOSE m \in MarkerLines : Cardinality({x \in MarkerLines : x <= m}) = k
\* where the k-th marker-based segment begins and ends
SegmentStart(k) == IF k = 1 THEN 1 ELSE MarkerAt(k)
SegmentEnd(k) ==
    IF k < Cardinality(MarkerLines) THEN MarkerAt(k + 1) - 1 ELSE Len(sp.lines)

\* C30: the split of any text gives exactly 4 segments: the first 4 segments
\* cut at the marker lines when the text has at least 4 marker lines, otherwise
\* 4 runs of floor(lines / 4) lines of which the last takes the remainder; the
\* series item then saves exactly 4 artifacts, with the episode numbers 1, 2, 3, 4.
C30_SplitCount ==
    sp.pc = "saved" =>
        /\ Len(sp.episodes) = EPISODES_PER_SERIES
        /\ sp.saved = <<1, 2, 3, 4>>
        /\ IF Cardinality(MarkerLines) >= EPISODES_PER_SERIES
           THEN \A k \in 1..EPISODES_PER_SERIES :
                    sp.episodes[k] = SubSeq(sp.lines, SegmentStart(k), SegmentEnd(k))
           ELSE LET q == Len(sp.lines) \div EPISODES_PER_SERIES
                IN  /\ \A k \in 1..(EPISODES_PER_SERIES - 1) :
                          sp.episodes[k] = SubSeq(sp.lines, (k - 1) * q + 1, k * q)
                    /\ sp.episodes[EPISODES_PER_SERIES] =
                          SubSeq(sp.lines, (EPISODES_PER_SERIES - 1) * q + 1, Len(sp.lines))

\* a text of three lines without a marker was split: three empty segments and
\* one with all the lines
C30_Witness ==
    /\ sp.pc = "saved"
    /\ Len(sp.lines) = 3
    /\ MarkerLines = {}
    /\ sp.episodes[1] = <<>>
    /\ Len(sp.episodes[4]) = 3

\* the series-tagged entries of the answer before entry i
SeriesBefore(a, i) == Cardinality({j \in 1..(i - 1) : IsSeriesTag(a[j])})
\* the units the entries before entry i were expanded to
UnitsBefore(a, i) == 4 * SeriesBefore(a, i) + ((i - 1) - SeriesBefore(a, i))

\* C31: the plan lists its units in the order of the collaborator's combinations:
\* a series entry gives 4 adjacent units with episode numbers 1, 2, 3, 4 and one
\* series identifier, two series never share an identifier, and the units of one
\* series identifier (the groups of the handler's seriesMap) are exactly 4.
C31_PlanOrder ==
    (pl.pc = "planned" /\ pl.result.ok) =>
        /\ Len(PlanUnits) = UnitsBefore(pl.answer, Len(pl.answer) + 1)
        /\ \A i \in DOMAIN pl.answer :
              LET first == UnitsBefore(pl.answer, i) + 1
              IN  IF IsSeriesTag(pl.answer[i])
                  THEN \A k \in 0..3 :
                          /\ PlanUnits[first + k].isSeriesEpisode
                          /\ PlanUnits[first + k].episodeNumber = k + 1
                          /\ PlanUnits[first + k].seriesId = SeriesBefore(pl.answer, i)
                  ELSE ~PlanUnits[first].isSeriesEpisode
        /\ \A i, j \in DOMAIN pl.answer :
              (IsSeriesTag(pl.answer[i]) /\ IsSeriesTag(pl.answer[j]) /\ i # j) =>
                  PlanUnits[UnitsBefore(pl.answer, i) + 1].seriesId
                      # PlanUnits[UnitsBefore(pl.answer, j) + 1].seriesId
        /\ \A sid \in SeriesIdsOf(PlanUnits) :
              LET U == UnitsOfSeries(PlanUnits, sid)
              IN  /\ Cardinality(U) = 4
                  /\ U = Least(U)..(Least(U) + 3)

\* a plan for 20 transcripts whose two series entries are the 3rd and the 9th of
\* the answer: units 3..6 are series 0 and units 12..15 are series 1
C31_Witness ==
    /\ pl.pc = "planned" /\ pl.result.ok
    /\ pl.n = 20
    /\ pl.answer[3] = "series" /\ pl.answer[9] = "series"
    /\ UnitsOfSeries(PlanUnits, 0) = 3..6
    /\ UnitsOfSeries(PlanUnits, 1) = 12..15

\* C32: the current abort signal of a job is triggered exactly when cancel has
\* been called on the job (the record carries the time of the call): cancel
\* triggers it, a resume that is accepted leaves a fresh untriggered signal, a
\* created job has an untriggered signal, and pause, updateProgress and complete
\* leave the signal as it is.
C32_SignalIffCancelled ==
    [][\A id \in StoreIds :
          /\ HasJob(jobs', id) => (jobs'[id].aborted <=> jobs'[id].cancelledAt # Null)
          /\ (HasJob(jobs, id) /\ CancelRequest(id)) => jobs'[id].aborted
          /\ (HasJob(jobs, id) /\ jobs[id].state = "paused" /\ ResumeRequest(id)) =>
                ~jobs'[id].aborted
          /\ (~HasJob(jobs, id) /\ HasJob(jobs', id)) => ~jobs'[id].aborted
          /\ (HasJob(jobs, id) /\ HasJob(jobs', id)
                /\ (PauseRequest(id) \/ StoreProgress(id) \/ StoreComplete(id))) =>
                jobs'[id].aborted = jobs[id].aborted]_vars

\* a job that was cancelled after its first artifact and completed afterwards:
\* its signal is still triggered
C32_Witness ==
    /\ HasJob(jobs, "job1")
    /\ jobs["job1"].aborted
    /\ jobs["job1"].state = "completed"
    /\ Len(jobs["job1"].completedTranscripts) > 0
    /\ h.pc = "idle"

\* C33: for the model of every accepted generate request the output-token
\* ceiling requested for a series item (max_tokens: tokenLimits.series) is
\* strictly larger than the one requested for a single item
\* (max_tokens: tokenLimits.single).
C33_SeriesCeilingLarger ==
    h.model # "none" => getTokenLimits(h.model).series > getTokenLimits(h.model).single

\* C34: every upstream call attempt of a job, first attempts and retry attempts
\* alike, is issued at least RATE_LIMIT_DELAY_MS after the previous attempt of
\* any item. lastCall is the moment of the latest first attempt, so no attempt
\* may go out less than RATE_LIMIT_DELAY_MS after lastCall once a call has been
\* issued.
C34_AttemptsSpaced ==
    [][\A i \in Items :
          (/\ items'[i].calls = items[i].calls + 1
           /\ \E j \in Items : items[j].calls > 0)
          => now - lastCall >= RATE_LIMIT_DELAY_MS]_vars

JobCreated == HasJob(jobs, h.jobId)
JobPaused == JobState(jobs, h.jobId) = "paused"
JobFinished ==
    /\ JobState(jobs, h.jobId) \in {"completed", "cancelled"}
    /\ stream.ended

\* C35 as stated: a created job reaches state completed or cancelled with its
\* stream ended provided it is not in state paused from some moment on for ever
\* (it is out of state paused again and again).
C35_FinishesUnlessPausedForever ==
    []<>(~JobPaused) => (JobCreated ~> JobFinished)

\* C35: under fair scheduling, with every upstream call returning, a created job
\* that from some moment on is never in state paused again reaches state
\* completed or cancelled with its event stream ended.
C35_Finishes ==
    <>[](~JobPaused) => (JobCreated ~> JobFinished)

\* a job completed, with its stream ended, although every attempt of its first
\* item failed
C35_Witness ==
    /\ JobFinished
    /\ jobs[h.jobId].state = "completed"
    /\ items[1].pc = "failed"
    /\ items[1].calls = MAX_RETRIES + 1
    /\ Len(jobs[h.jobId].completedTranscripts) = TranscriptCount - 1

\* C36: once res.end() has run on the stream of a generate request (after the
\* complete event or after the fatal error event) nothing is written to it any
\* more, not even by an item whose upstream call returns afterwards: no write
\* has ever found the stream ended.
C36_NoWriteAfterEnd == stream.afterEnd = 0

\* the stream was ended by the catch block while an item's call was in flight;
\* the call returned a message afterwards and the item wrote no event
C36_Witness ==
    /\ stream.ended
    /\ h.pc = "failed"
    /\ \E i \in Items : items[i].pc = "failed" /\ items[i].r.pc = "returned"
    /\ Len(stream.events) > 0
    /\ stream.events[Len(stream.events)].type = "error"

\* C37: every upstream call attempt, the first attempt of an item (at once or
\* after the pacing wait) and each retry attempt after a backoff, is issued in a
\* step that does not find the job in state paused.
C37_NoCallWhilePaused ==
    [][\A i \in Items :
          items'[i].calls = items[i].calls + 1
          => JobState(jobs, h.jobId) # "paused"]_vars

\* the cost that the handler reports, in a progress event and in the complete
\* event: calculateCost of the ledger's cumulative totals (server.js 309-313,
\* 386-390, 479-483)
ReportedCost ==
    calculateCost(Ledger.totalInputTokens, Ledger.totalOutputTokens, h.model)

\* C38: when no call of the job had more input tokens than the threshold of the
\* model's higher price tier, the reported cost is at the standard rate whatever
\* the cumulative input total: it is the sum of the costs of the usage records.
C38_TierPerCall ==
    (/\ h.model # "none"
     /\ Ledger.usageRecords # <<>>
     /\ \A k \in DOMAIN Ledger.usageRecords :
           Ledger.usageRecords[k].inputTokens <= MODEL_PRICING[h.model].tokenLimitThreshold)
    => /\ ReportedCost.pricingTier = "standard"
       /\ ReportedCost.totalCost = calculateCumulativeCost(Ledger.usageRecords, h.model)

\* the lines of a segment as a text: the segment is lines.join('\n'), and the
\* join of no lines is the empty string, which reads as one empty line
EmptyLine == [no |-> 0, marker |-> FALSE]
TextLines(segment) == IF segment = <<>> THEN <<EmptyLine>> ELSE segment

\* segments.join('\n'), read as lines
RECURSIVE JoinSegments(_)
JoinSegments(segments) ==
    IF segments = <<>> THEN <<>>
    ELSE TextLines(Head(segments)) \o JoinSegments(Tail(segments))

\* C39: splitting loses no text: every line of the upstream text is a line of
\* the text that the returned segments give when they are joined with newlines
\* in order (the join is the whole upstream text), with the marker split and
\* with the line-count fallback.
C39_NoLineLost ==
    sp.pc = "saved" =>
        \A k \in DOMAIN sp.lines :
            \E j \in DOMAIN JoinSegments(sp.episodes) :
                JoinSegments(sp.episodes)[j] = sp.lines[k]

====
